---- MODULE Spec2Model ----
(***************************************************************************)
(* Predictive content cache of the OMNeT++ HTTP simulation:                *)
(*   - PatternTable (PatternTable.cc / PatternTable.h): the transition     *)
(*     learner and confidence-gated predictor;                             *)
(*   - HttpServer (src/HttpServer.cc): the server's own pattern map, the   *)
(*     response cache with TTL expiry, LRU eviction, per-entry expiry      *)
(*     timers and the periodic sweep;                                      *)
(*   - CacheEntry (src/CacheEntry.cc).                                     *)
(* Times are whole numbers of simulation-time ticks.  Doubles that are     *)
(* ratios of small integers (probabilities, thresholds, decay factors) are *)
(* pairs <<numerator, denominator>> with a positive denominator and are    *)
(* compared by cross-multiplication.                                       *)
(***************************************************************************)
EXTENDS Integers, Sequences, FiniteSets, TLC

VARIABLES
    unit,         \* which run this is: one that calls the methods of a PatternTable
                  \* ("PatternTable", "Tuning", "Decaying") or one that delivers
                  \* messages to a server ("Server", "Learner", "Cache", ...)
    table,        \* the PatternTable object
    server,       \* the HttpServer module's fields
    now,          \* simTime()
    lastCall,     \* the last call: its name and what it returned / emitted
    insertOrder,  \* history: keys stored in responseCache, oldest insertion first
    requests,     \* history: the request messages delivered to the server, in order
                  \* of arrival
    clients,      \* the HttpClient modules, by index; none in the runs without clients
    network       \* the messages sent on a gate and not yet delivered, in the runs
                  \* with clients

vars == <<unit, table, server, now, lastCall, insertOrder, requests, clients, network>>

----------------------------------------------------------------------------
(* Bounds of the model *)

\* page ids offered as input are -1 .. MaxPage
MaxPage == 1
\* learning calls accepted per PatternTable life
MaxUpdates == 2
\* getPredictions and getPredictionsWithConfidence calls per PatternTable life
MaxQueries == 1

PageInputs == -1 .. MaxPage
ValidPages == 0 .. MaxPage

\* thresholds and decay factors offered as input (doubles n/d)
Thresholds == {<<1, 2>>}
MaxPredChoices == {1, 2}
Factors == {<<-1, 2>>, <<0, 1>>, <<1, 2>>, <<1, 1>>, <<3, 2>>}
Increments == {-1, 0, 1, 3}
\* counts and decay factors whose product is not exact in double precision:
\* 15.0/22 is stored as a double just below 15/22, and 22 * (15.0/22) truncates to 14
LargeIncrements == {1, 22}
RoundedFactors == {<<1, 2>>, <<15, 22>>}
\* bounds handed to the constructor that leave no room for a prediction
DegenerateMaxPredictions == {-1, 0}
MinCounts == {1, 2, 3}

----------------------------------------------------------------------------
(* Helpers: doubles as ratios, std::map as a function iterated in key order *)

RatGE(a, b) == a[1] * b[2] >= b[1] * a[2]
RatGT(a, b) == a[1] * b[2] > b[1] * a[2]
RatLT(a, b) == a[1] * b[2] < b[1] * a[2]
RatEQ(a, b) == a[1] * b[2] = b[1] * a[2]

\* F applied to the value of v, which is computed once
With(v, F(_)) == CHOOSE r \in {F(x) : x \in {v}} : TRUE

Abs(n) == IF n < 0 THEN -n ELSE n

\* IEEE 754 binary64: a double carries SignificandBits binary digits and every
\* operation rounds its exact result to the nearest double, ties to the even one
SignificandBits == 53

RECURSIVE BitLength(_)
\* the number of binary digits of a natural number; 0 for 0
BitLength(n) == IF n = 0 THEN 0 ELSE 1 + BitLength(n \div 2)

RECURSIVE TimesTwoToModulo(_, _, _)
\* (r * 2^s) mod q, four binary digits at a time
TimesTwoToModulo(r, s, q) ==
    IF s < 4 THEN ((r % q) * 2 ^ s) % q
    ELSE (16 * TimesTwoToModulo(r, s - 4, q)) % q

\* the binary exponent of p/q for positive ints: the e with 2^e <= p/q < 2^(e+1)
BinaryExponent(p, q) ==
    IF p >= q THEN BitLength(p \div q) - 1
    ELSE LET a == BitLength(q) - BitLength(p)
         IN IF p * 2 ^ a >= q THEN -a ELSE -(a + 1)

\* The double d that a literal or a quotient p/q of positive ints evaluates to has the
\* significand p * 2^s / q rounded to a whole number, s == SignificandBits - 1 - e.
\* What the division leaves, rem, says where d lies: on p/q (rem = 0), above it
\* (2 * rem >= q, rounded up) or below it by rem / (q * 2^s).
ToDouble(p, q) ==
    LET e == BinaryExponent(p, q)
        s == SignificandBits - 1 - e
        rem == TimesTwoToModulo(p, s, q)
    IN [exponent |-> e, below |-> IF 2 * rem >= q THEN 0 ELSE rem]

\* static_cast<int>(n * d) for a positive int n and the double d of p/q.  With k the
\* whole part of the exact n * p / q: when n * p / q is not whole, the double product
\* lies strictly between k and k + 1.  When it is whole and d is not below p/q, the
\* product is k or just above.  When it is whole and d is below p/q, the exact product
\* n * d is k - distance / (p * 2^s) with distance == k * below (n / q = k / p), and
\* rounding it to a double gives k if and only if that is at most half the spacing
\* of the doubles under k, 2^(BitLength(k - 1) - SignificandBits - 1), a tie going to
\* the even k; otherwise the product is a double under k and the cast gives k - 1.
TruncProduct(n, p, q) ==
    LET k == (n * p) \div q
        d == ToDouble(p, q)
        distance == k * d.below
        shift == BitLength(k - 1) - 2 - d.exponent
    IN IF (n * p) % q # 0 \/ d.below = 0 \/ shift >= 31 THEN k
       ELSE IF shift >= 0
       THEN (IF (distance + 2 ^ shift - 1) \div 2 ^ shift <= p THEN k ELSE k - 1)
       ELSE (IF distance * 2 ^ (-shift) <= p THEN k ELSE k - 1)

\* static_cast<int>(n * f) for an int n and the double f = f[1]/f[2]: the product is
\* formed in double and then truncated toward zero
TruncMul(n, f) ==
    IF n = 0 \/ f[1] = 0 THEN 0
    ELSE IF (n < 0) = (f[1] < 0) THEN TruncProduct(Abs(n), Abs(f[1]), f[2])
    ELSE -TruncProduct(Abs(n), Abs(f[1]), f[2])

EmptyMap == [k \in {} |-> 0]

MapErase(m, key) == [k \in (DOMAIN m) \ {key} |-> m[k]]

MapPut(m, key, val) == [k \in (DOMAIN m) \cup {key} |-> IF k = key THEN val ELSE m[k]]

\* m[key] += n, where operator[] default-constructs a missing int as 0
MapAdd(m, key, n) ==
    MapPut(m, key, (IF key \in DOMAIN m THEN m[key] ELSE 0) + n)

RECURSIVE AscSeq(_)
\* the elements of a finite set of integers in ascending order (map iteration order)
AscSeq(S) ==
    IF S = {} THEN <<>>
    ELSE LET m == CHOOSE x \in S : \A y \in S : x <= y
         IN <<m>> \o AscSeq(S \ {m})

RECURSIVE SumCounts(_, _)
SumCounts(m, keys) ==
    IF keys = {} THEN 0
    ELSE LET k == CHOOSE x \in keys : TRUE
         IN m[k] + SumCounts(m, keys \ {k})

----------------------------------------------------------------------------
(* PatternTable *)

\* PatternTable::PatternTable(double threshold, int maxPred)
NewPatternTable(threshold, maxPred) ==
    [ transitions |-> EmptyMap,
      predictions |-> EmptyMap,
      totalTransitions |-> 0,
      confidenceThreshold |-> threshold,
      maxPredictions |-> maxPred,
      enableLearning |-> TRUE,
      totalUpdates |-> 0,
      predictionRequests |-> 0,
      successfulPredictions |-> 0 ]

isValidPage(pageId) == pageId >= 0

recordTransitionNoErase(t, fromPage, toPage) ==
    IF ~t.enableLearning \/ ~isValidPage(fromPage) \/ ~isValidPage(toPage)
    THEN t
    ELSE [t EXCEPT !.transitions = MapAdd(@, <<fromPage, toPage>>, 1),
                   !.totalTransitions = @ + 1,
                   !.totalUpdates = @ + 1]

recordTransition(t, fromPage, toPage) ==
    IF ~t.enableLearning \/ ~isValidPage(fromPage) \/ ~isValidPage(toPage)
    THEN t
    ELSE [t EXCEPT !.transitions = MapAdd(@, <<fromPage, toPage>>, 1),
                   !.totalTransitions = @ + 1,
                   !.totalUpdates = @ + 1,
                   !.predictions = MapErase(@, fromPage)]

RECURSIVE recordPairsSkipLast(_, _, _)
recordPairsSkipLast(t, pageSequence, i) ==
    IF i >= Len(pageSequence) - 1 THEN t
    ELSE recordPairsSkipLast(recordTransition(t, pageSequence[i], pageSequence[i + 1]),
                             pageSequence, i + 1)

RECURSIVE recordPairs(_, _, _)
\* the loop of recordSequence from index i (1-based) on
recordPairs(t, pageSequence, i) ==
    IF i >= Len(pageSequence) THEN t
    ELSE recordPairs(recordTransition(t, pageSequence[i], pageSequence[i + 1]),
                     pageSequence, i + 1)

recordSequence(t, pageSequence) ==
    IF ~t.enableLearning \/ Len(pageSequence) < 2 THEN t
    ELSE recordPairs(t, pageSequence, 1)

updatePatternAnyCount(t, fromPage, toPage, count) ==
    IF ~t.enableLearning \/ ~isValidPage(fromPage) \/ ~isValidPage(toPage)
    THEN t
    ELSE [t EXCEPT !.transitions = MapAdd(@, <<fromPage, toPage>>, count),
                   !.totalTransitions = @ + count,
                   !.totalUpdates = @ + 1,
                   !.predictions = MapErase(@, fromPage)]

updatePattern(t, fromPage, toPage, count) ==
    IF ~t.enableLearning \/ ~isValidPage(fromPage) \/ ~isValidPage(toPage) \/ count <= 0
    THEN t
    ELSE [t EXCEPT !.transitions = MapAdd(@, <<fromPage, toPage>>, count),
                   !.totalTransitions = @ + count,
                   !.totalUpdates = @ + 1,
                   !.predictions = MapErase(@, fromPage)]

getTotalTransitionsFromGlobal(t, fromPage) == t.totalTransitions

getTotalTransitionsFrom(t, fromPage) ==
    SumCounts(t.transitions, {k \in DOMAIN t.transitions : k[1] = fromPage})

\* the double returned, as a ratio; 0.0 is <<0, 1>>
getTransitionProbability(t, fromPage, toPage) ==
    IF ~isValidPage(fromPage) \/ ~isValidPage(toPage) THEN <<0, 1>>
    ELSE IF <<fromPage, toPage>> \notin DOMAIN t.transitions THEN <<0, 1>>
    ELSE LET totalFromPage == getTotalTransitionsFrom(t, fromPage)
         IN IF totalFromPage = 0 THEN <<0, 1>>
            ELSE <<t.transitions[<<fromPage, toPage>>], totalFromPage>>

getReachablePages(t, fromPage) ==
    AscSeq({k[2] : k \in {x \in DOMAIN t.transitions : x[1] = fromPage}})

\* the comparator handed to std::sort: a.second > b.second
byProbability(a, b) == RatGT(a[2], b[2])

(* std::sort as the build's library (libstdc++) runs it on the vector v between the
   positions first and last, last being one past the end: quicksort steps down to
   ranges of SortThreshold elements, a heap sort when the depth limit is used up,
   and one insertion sort over the whole vector at the end.  Elements that compare
   equal keep their order only as far as these steps leave it. *)
SortThreshold == 16

iterSwap(v, i, j) == [v EXCEPT ![i] = v[j], ![j] = v[i]]

RECURSIVE unguardedLinearInsert(_, _, _)
\* val moves down from position last past every element it is to precede
unguardedLinearInsert(v, last, val) ==
    IF byProbability(val, v[last - 1])
    THEN unguardedLinearInsert([v EXCEPT ![last] = v[last - 1]], last - 1, val)
    ELSE [v EXCEPT ![last] = val]

\* one turn of the loop of __insertion_sort, for the element at position i
insertionSortStep(v, first, i) ==
    IF byProbability(v[i], v[first])
    THEN [j \in DOMAIN v |-> IF j = first THEN v[i]
                             ELSE IF j > first /\ j <= i THEN v[j - 1]
                             ELSE v[j]]
    ELSE unguardedLinearInsert(v, i, v[i])

RECURSIVE insertionSortFrom(_, _, _, _)
\* the loop of __insertion_sort for the positions i .. last - 1, in this order (the
\* range is halved so that the evaluation nests no deeper than its logarithm)
insertionSortFrom(v, first, i, last) ==
    IF i >= last THEN v
    ELSE IF last = i + 1 THEN insertionSortStep(v, first, i)
    ELSE With(insertionSortFrom(v, first, i, (i + last) \div 2),
              LAMBDA w : insertionSortFrom(w, first, (i + last) \div 2, last))

insertionSort(v, first, last) ==
    IF first = last THEN v ELSE insertionSortFrom(v, first, first + 1, last)

RECURSIVE unguardedInsertionSort(_, _, _)
\* __unguarded_linear_insert for the positions first .. last - 1, in this order
unguardedInsertionSort(v, first, last) ==
    IF first >= last THEN v
    ELSE IF last = first + 1 THEN unguardedLinearInsert(v, first, v[first])
    ELSE With(unguardedInsertionSort(v, first, (first + last) \div 2),
              LAMBDA w : unguardedInsertionSort(w, (first + last) \div 2, last))

finalInsertionSort(v, first, last) ==
    IF last - first > SortThreshold
    THEN With(insertionSort(v, first, first + SortThreshold),
              LAMBDA w : unguardedInsertionSort(w, first + SortThreshold, last))
    ELSE insertionSort(v, first, last)

moveMedianToFirst(v, result, a, b, c) ==
    IF byProbability(v[a], v[b])
    THEN IF byProbability(v[b], v[c]) THEN iterSwap(v, result, b)
         ELSE IF byProbability(v[a], v[c]) THEN iterSwap(v, result, c)
         ELSE iterSwap(v, result, a)
    ELSE IF byProbability(v[a], v[c]) THEN iterSwap(v, result, a)
    ELSE IF byProbability(v[b], v[c]) THEN iterSwap(v, result, c)
    ELSE iterSwap(v, result, b)

\* while (comp(first, pivot)) ++first: the first position from first on whose element
\* does not precede the pivot's
scanUp(v, first, pivot) ==
    CHOOSE i \in first .. Len(v) :
        /\ ~byProbability(v[i], v[pivot])
        /\ \A j \in first .. i - 1 : byProbability(v[j], v[pivot])

\* while (comp(pivot, last)) --last: the last position up to last whose element the
\* pivot's does not precede
scanDown(v, last, pivot) ==
    last - (CHOOSE d \in 0 .. last - 1 :
                /\ ~byProbability(v[pivot], v[last - d])
                /\ \A e \in 0 .. d - 1 : byProbability(v[pivot], v[last - e]))

\* one turn of the loop of __unguarded_partition; done once it has returned first
unguardedPartitionStep(p, pivot) ==
    With(<<scanUp(p.v, p.first, pivot), scanDown(p.v, p.last - 1, pivot)>>,
         LAMBDA at : IF ~(at[1] < at[2])
                     THEN [v |-> p.v, first |-> at[1], last |-> at[2], done |-> TRUE]
                     ELSE [v |-> iterSwap(p.v, at[1], at[2]), first |-> at[1] + 1,
                           last |-> at[2], done |-> FALSE])

RECURSIVE unguardedPartitionTurns(_, _, _)
\* up to n turns of that loop
unguardedPartitionTurns(p, pivot, n) ==
    IF p.done \/ n = 0 THEN p
    ELSE IF n = 1 THEN unguardedPartitionStep(p, pivot)
    ELSE With(unguardedPartitionTurns(p, pivot, n \div 2),
              LAMBDA q : unguardedPartitionTurns(q, pivot, n - n \div 2))

\* the vector afterwards and the position returned; every turn but the last moves
\* first up, so the loop returns within last - first turns
unguardedPartition(v, first, last, pivot) ==
    With(unguardedPartitionTurns([v |-> v, first |-> first, last |-> last, done |-> FALSE],
                                 pivot, last - first),
         LAMBDA p : [v |-> p.v, cut |-> p.first])

unguardedPartitionPivot(v, first, last) ==
    With(moveMedianToFirst(v, first, first + 1, first + (last - first) \div 2, last - 1),
         LAMBDA w : unguardedPartition(w, first + 1, last, first))

RECURSIVE pushHeap(_, _, _, _, _)
\* heap positions count from 0 at position first of the vector
pushHeap(v, first, holeIndex, topIndex, value) ==
    IF holeIndex > topIndex /\ byProbability(v[first + (holeIndex - 1) \div 2], value)
    THEN pushHeap([v EXCEPT ![first + holeIndex] = v[first + (holeIndex - 1) \div 2]],
                  first, (holeIndex - 1) \div 2, topIndex, value)
    ELSE [v EXCEPT ![first + holeIndex] = value]

RECURSIVE sinkHole(_, _, _, _)
\* the first loop of __adjust_heap: the hole sinks to the child that is not less
sinkHole(v, first, holeIndex, len) ==
    IF holeIndex < (len - 1) \div 2
    THEN With(IF byProbability(v[first + 2 * (holeIndex + 1)],
                               v[first + 2 * (holeIndex + 1) - 1])
              THEN 2 * (holeIndex + 1) - 1 ELSE 2 * (holeIndex + 1),
              LAMBDA secondChild :
                  sinkHole([v EXCEPT ![first + holeIndex] = v[first + secondChild]],
                           first, secondChild, len))
    ELSE [v |-> v, holeIndex |-> holeIndex]

adjustHeap(v, first, holeIndex, len, value) ==
    With(sinkHole(v, first, holeIndex, len),
         LAMBDA sunk :
             IF len % 2 = 0 /\ sunk.holeIndex = (len - 2) \div 2
             THEN pushHeap([sunk.v EXCEPT ![first + sunk.holeIndex] =
                                              sunk.v[first + 2 * (sunk.holeIndex + 1) - 1]],
                           first, 2 * (sunk.holeIndex + 1) - 1, holeIndex, value)
             ELSE pushHeap(sunk.v, first, sunk.holeIndex, holeIndex, value))

RECURSIVE makeHeapFrom(_, _, _, _, _)
\* the loop of __make_heap for the heap positions parent down to lowest
makeHeapFrom(v, first, len, parent, lowest) ==
    IF parent < lowest THEN v
    ELSE IF parent = lowest THEN adjustHeap(v, first, parent, len, v[first + parent])
    ELSE With(makeHeapFrom(v, first, len, parent, (parent + lowest + 1) \div 2),
              LAMBDA w : makeHeapFrom(w, first, len,
                                      (parent + lowest + 1) \div 2 - 1, lowest))

makeHeap(v, first, last) ==
    IF last - first < 2 THEN v
    ELSE makeHeapFrom(v, first, last - first, (last - first - 2) \div 2, 0)

popHeap(v, first, last, result) ==
    adjustHeap([v EXCEPT ![result] = v[first]], first, 0, last - first, v[result])

RECURSIVE sortHeapTo(_, _, _, _)
\* the loop of __sort_heap while last goes down to lowest
sortHeapTo(v, first, last, lowest) ==
    IF last <= lowest THEN v
    ELSE IF last = lowest + 1 THEN popHeap(v, first, last - 1, last - 1)
    ELSE With(sortHeapTo(v, first, last, (last + lowest) \div 2),
              LAMBDA w : sortHeapTo(w, first, (last + lowest) \div 2, lowest))

\* while (last - first > 1) { --last; __pop_heap(first, last, last); }
sortHeap(v, first, last) == sortHeapTo(v, first, last, first + 1)

\* __partial_sort(first, last, last): with the middle at the end __heap_select is
\* __make_heap alone
partialSort(v, first, last) ==
    With(makeHeap(v, first, last), LAMBDA w : sortHeap(w, first, last))

RECURSIVE introsortLoop(_, _, _, _)
introsortLoop(v, first, last, depthLimit) ==
    IF last - first <= SortThreshold THEN v
    ELSE IF depthLimit = 0 THEN partialSort(v, first, last)
    ELSE With(unguardedPartitionPivot(v, first, last),
              LAMBDA p : With(introsortLoop(p.v, p.cut, last, depthLimit - 1),
                              LAMBDA w : introsortLoop(w, first, p.cut, depthLimit - 1)))

\* std::sort(probabilities.begin(), probabilities.end(), byProbability)
SortByProbability(probabilities) ==
    IF probabilities = <<>> THEN probabilities
    ELSE With(introsortLoop(probabilities, 1, Len(probabilities) + 1,
                            2 * (BitLength(Len(probabilities)) - 1)),
              LAMBDA w : finalInsertionSort(w, 1, Len(probabilities) + 1))

\* a sequence of <<toPage, probability>>
calculateProbabilities(t, fromPage) ==
    LET totalFromPage == getTotalTransitionsFrom(t, fromPage)
        tos == getReachablePages(t, fromPage)
        probabilities == [i \in 1 .. Len(tos) |->
                             <<tos[i], <<t.transitions[<<fromPage, tos[i]>>], totalFromPage>> >>]
    IN IF totalFromPage = 0 THEN <<>>
       ELSE SortByProbability(probabilities)

\* size < static_cast<size_t>(n) for a container size and an int n: a negative n
\* converts to 2^64 + n, which no size reaches
SizeLess(size, n) == n < 0 \/ size < n

RECURSIVE FilterPredictions(_, _, _, _)
\* the loop of getPredictions over the sorted probabilities
FilterPredictions(probabilities, threshold, maxPred, result) ==
    IF probabilities = <<>> THEN result
    ELSE LET prob == Head(probabilities)
         IN FilterPredictions(Tail(probabilities), threshold, maxPred,
                IF RatGE(prob[2], threshold) /\ SizeLess(Len(result), maxPred)
                THEN Append(result, prob[1]) ELSE result)

\* the list getPredictions computes when nothing is memoized
computePredictions(t, currentPage) ==
    FilterPredictions(calculateProbabilities(t, currentPage),
                      t.confidenceThreshold, t.maxPredictions, <<>>)

\* getPredictions: the object afterwards and the list returned
getPredictions(t, currentPage) ==
    LET counted == [t EXCEPT !.predictionRequests = @ + 1]
    IN IF ~isValidPage(currentPage)
       THEN [table |-> counted, result |-> <<>>]
       ELSE IF currentPage \in DOMAIN t.predictions
       THEN [table |-> counted, result |-> t.predictions[currentPage]]
       ELSE LET result == computePredictions(t, currentPage)
            IN [table |-> [counted EXCEPT !.predictions = MapPut(@, currentPage, result)],
                result |-> result]

getPredictionsWithConfidence(t, currentPage) ==
    LET counted == [t EXCEPT !.predictionRequests = @ + 1]
    IN IF ~isValidPage(currentPage)
       THEN [table |-> counted, result |-> <<>>]
       ELSE [table |-> counted, result |-> calculateProbabilities(t, currentPage)]

getMostLikelyNextPageStrict(t, currentPage) ==
    LET probabilities == calculateProbabilities(t, currentPage)
    IN IF probabilities = <<>> \/ RatGE(t.confidenceThreshold, probabilities[1][2])
       THEN -1
       ELSE probabilities[1][1]

getMostLikelyNextPage(t, currentPage) ==
    LET probabilities == calculateProbabilities(t, currentPage)
    IN IF probabilities = <<>> \/ RatLT(probabilities[1][2], t.confidenceThreshold)
       THEN -1
       ELSE probabilities[1][1]

\* PatternTable::setConfidenceThreshold
setConfidenceThreshold(t, threshold) == [t EXCEPT !.confidenceThreshold = threshold]

\* PatternTable::setMaxPredictions
setMaxPredictions(t, maxPred) == [t EXCEPT !.maxPredictions = maxPred]

\* PatternTable::setEnableLearning
setEnableLearning(t, enable) == [t EXCEPT !.enableLearning = enable]

\* PatternTable::operator=(const PatternTable& other): nothing is written when
\* other is the object itself, every field is copied from other otherwise
assign(t, other, self) ==
    IF self
    THEN t
    ELSE [ transitions |-> other.transitions,
           predictions |-> other.predictions,
           totalTransitions |-> other.totalTransitions,
           confidenceThreshold |-> other.confidenceThreshold,
           maxPredictions |-> other.maxPredictions,
           enableLearning |-> other.enableLearning,
           totalUpdates |-> other.totalUpdates,
           predictionRequests |-> other.predictionRequests,
           successfulPredictions |-> other.successfulPredictions ]

clearPredictionsCache(t) == [t EXCEPT !.predictions = EmptyMap]

clear(t) ==
    [t EXCEPT !.transitions = EmptyMap,
              !.predictions = EmptyMap,
              !.totalTransitions = 0,
              !.totalUpdates = 0,
              !.predictionRequests = 0,
              !.successfulPredictions = 0]

compactAtMost(t, minCount) ==
    LET removed == {k \in DOMAIN t.transitions : t.transitions[k] <= minCount}
    IN clearPredictionsCache(
         [t EXCEPT !.transitions = [k \in (DOMAIN @) \ removed |-> @[k]],
                   !.totalTransitions = @ - SumCounts(t.transitions, removed)])

compact(t, minCount) ==
    LET removed == {k \in DOMAIN t.transitions : t.transitions[k] < minCount}
    IN clearPredictionsCache(
         [t EXCEPT !.transitions = [k \in (DOMAIN @) \ removed |-> @[k]],
                   !.totalTransitions = @ - SumCounts(t.transitions, removed)])

decayToZero(t, factor) ==
    IF RatGE(<<0, 1>>, factor) \/ RatGE(factor, <<1, 1>>) THEN t
    ELSE clearPredictionsCache(
           [t EXCEPT !.transitions = [k \in DOMAIN @ |-> TruncMul(@[k], factor)],
                     !.totalTransitions = TruncMul(@, factor)])

decay(t, factor) ==
    IF RatGE(<<0, 1>>, factor) \/ RatGE(factor, <<1, 1>>) THEN t
    ELSE clearPredictionsCache(
           [t EXCEPT !.transitions =
                         [k \in DOMAIN @ |->
                             IF TruncMul(@[k], factor) = 0 THEN 1
                             ELSE TruncMul(@[k], factor)],
                     !.totalTransitions = TruncMul(@, factor)])

----------------------------------------------------------------------------
(* HttpServer: page names and the server's own pattern map *)

\* HttpServer::getPageName
getPageName(pageId) ==
    CASE pageId = 0 -> "home"
      [] pageId = 1 -> "login"
      [] pageId = 2 -> "dashboard"
      [] pageId = 3 -> "profile"
      [] pageId = 4 -> "settings"
      [] pageId = 5 -> "logout"
      [] OTHER -> "unknown"

\* the page names in the order std::map<std::string, ...> iterates them
NameOrder == <<"dashboard", "home", "login", "logout", "profile", "settings", "unknown">>

\* a set of page names as a sequence in map iteration order
RECURSIVE NamesInOrder(_, _)
NamesInOrder(S, i) ==
    IF i > Len(NameOrder) THEN <<>>
    ELSE (IF NameOrder[i] \in S THEN <<NameOrder[i]>> ELSE <<>>) \o NamesInOrder(S, i + 1)

\* simulation time (simtime_t) is a whole number of ticks; the delays the server
\* draws are taken as whole milliseconds
TicksPerSecond == 1000

\* a number of seconds as simulation time
Seconds(n) == n * TicksPerSecond

\* HttpServer::initialize()
predictionThresholdLow == <<2, 5>>

predictionThresholdValue == <<6, 10>>
cacheCleanupInterval == 10
DefaultMaxCacheSize == 20

\* HttpServer::generatePageContent: one text per page title, a generic one otherwise
generatePageContent(pageName) ==
    IF pageName \in {"Home", "Login", "Dashboard", "Profile", "Settings", "Logout"}
    THEN <<"page", pageName>>
    ELSE <<"generic", pageName>>

\* PageInfo(id, name, pageContent, ttlSeconds)
PageInfo(id, name, pageContent, ttlSeconds) ==
    [pageId |-> id, pageName |-> name, content |-> pageContent, ttl |-> ttlSeconds]

\* HttpServer::initializeWebPages: the map webPages
initializeWebPages ==
    (0 :> PageInfo(0, "home", generatePageContent("Home"), 3600))
    @@ (1 :> PageInfo(1, "login", generatePageContent("Login"), 1800))
    @@ (2 :> PageInfo(2, "dashboard", generatePageContent("Dashboard"), 900))
    @@ (3 :> PageInfo(3, "profile", generatePageContent("Profile"), 1800))
    @@ (4 :> PageInfo(4, "settings", generatePageContent("Settings"), 1200))
    @@ (5 :> PageInfo(5, "logout", generatePageContent("Logout"), 300))

\* the fields of HttpServer after initialize() at time 0, for a configured cache
\* capacity (initialize() sets 20).  A scheduled self-message is a record of its
\* parameters and arrival time: fes holds the scheduled CacheExpiry_ messages,
\* cacheCleanupTimer the arrival time of the scheduled CacheCleanup message,
\* scheduled the CachedResponse and DelayedProcessing messages in the order they
\* were scheduled.  out is what the module has sent on its gate vector "out".
NewHttpServer(capacity) ==
    [ requestsReceived |-> 0,
      responsesGenerated |-> 0,
      patternTable |-> EmptyMap,
      clientLastPage |-> EmptyMap,
      responseCache |-> EmptyMap,
      predictionThreshold |-> predictionThresholdValue,
      cacheExpiryMessages |-> EmptyMap,
      fes |-> {},
      maxCacheSize |-> capacity,
      currentCacheSize |-> 0,
      cacheCleanupTimer |-> 0 + Seconds(cacheCleanupInterval),
      webPages |-> initializeWebPages,
      requestStartTimes |-> EmptyMap,
      responseTimes |-> <<>>,
      totalCacheHits |-> 0,
      totalCacheMisses |-> 0,
      scheduled |-> <<>>,
      out |-> <<>> ]

updatePatternTable(s, clientId, fromPage, toPage) ==
    IF fromPage = "" \/ toPage = "" \/ fromPage = toPage THEN s
    ELSE [s EXCEPT !.patternTable = MapAdd(@, <<fromPage, toPage>>, 1),
                   !.clientLastPage = MapPut(@, clientId, toPage)]

\* the total of the loop in calculateTransitionProbability
totalFromPageOf(s, fromPage) ==
    SumCounts(s.patternTable, {k \in DOMAIN s.patternTable : k[1] = fromPage})

calculateTransitionProbability(s, fromPage, toPage) ==
    IF fromPage = "" \/ toPage = "" THEN <<0, 1>>
    ELSE IF <<fromPage, toPage>> \notin DOMAIN s.patternTable THEN <<0, 1>>
    ELSE LET totalFromPage == totalFromPageOf(s, fromPage)
         IN IF totalFromPage = 0 THEN <<0, 1>>
            ELSE <<s.patternTable[<<fromPage, toPage>>], totalFromPage>>

learnServedPageAlways(s, clientId, fromPage, resourceId) ==
    updatePatternTable(s, clientId, getPageName(fromPage), getPageName(resourceId))

\* the pattern-learning step of a served request (CachedResponse and
\* processDelayedRequest alike): recorded when fromPage is not the sentinel
learnServedPage(s, clientId, fromPage, resourceId) ==
    IF fromPage >= 0
    THEN updatePatternTable(s, clientId, getPageName(fromPage), getPageName(resourceId))
    ELSE s

----------------------------------------------------------------------------
(* CacheEntry and the server's response cache *)

\* predictivePreCache: the TTL of a pre-cached entry and the delay of its expiry timer
PreCacheTtl == 5
PreCacheExpiryDelay == 5

\* CacheEntry::CacheEntry(int resId, const std::string& pageContent, int ttlSeconds)
\* constructed at simTime() = t
CacheEntry(resId, pageContent, ttlSeconds, t) ==
    [ resourceId |-> resId,
      content |-> pageContent,
      timestamp |-> t,
      ttl |-> ttlSeconds,
      accessCount |-> 1,
      lastAccess |-> t,
      dirty |-> FALSE ]

updateAccessCountOnly(entry, t) ==
    [entry EXCEPT !.accessCount = @ + 1]

\* CacheEntry::updateAccess at simTime() = t
updateAccess(entry, t) ==
    [entry EXCEPT !.accessCount = @ + 1, !.lastAccess = t]

isExpiredStrictlyAfter(entry, t) ==
    IF entry.ttl <= 0 THEN FALSE
    ELSE t > entry.timestamp + Seconds(entry.ttl)

\* CacheEntry::isExpired at simTime() = t
isExpired(entry, t) ==
    IF entry.ttl <= 0 THEN FALSE
    ELSE t >= entry.timestamp + Seconds(entry.ttl)

\* cancelAndDelete of the expiry message registered for pageName, if one is registered
cancelExpiryMessage(s, pageName) ==
    IF pageName \in DOMAIN s.cacheExpiryMessages
    THEN [s EXCEPT !.fes = @ \ {s.cacheExpiryMessages[pageName]},
                   !.cacheExpiryMessages = MapErase(@, pageName)]
    ELSE s

checkResponseCacheRefreshing(s, page, t) ==
    IF page \notin DOMAIN s.responseCache
    THEN [server |-> s, hit |-> FALSE, cachedResponse |-> <<>>, expired |-> 0]
    ELSE IF ~isExpired(s.responseCache[page], t)
    THEN [server |-> [s EXCEPT !.responseCache[page] =
                         [updateAccess(@, t) EXCEPT !.timestamp = t]],
          hit |-> TRUE,
          cachedResponse |-> s.responseCache[page].content,
          expired |-> 0]
    ELSE [server |-> [cancelExpiryMessage(s, page) EXCEPT
                         !.responseCache = MapErase(@, page),
                         !.currentCacheSize = @ - 1],
          hit |-> FALSE, cachedResponse |-> <<>>, expired |-> 1]

checkResponseCacheKeepTimer(s, page, t) ==
    IF page \notin DOMAIN s.responseCache
    THEN [server |-> s, hit |-> FALSE, cachedResponse |-> <<>>, expired |-> 0]
    ELSE IF ~isExpired(s.responseCache[page], t)
    THEN [server |-> [s EXCEPT !.responseCache[page] = updateAccess(@, t)],
          hit |-> TRUE,
          cachedResponse |-> s.responseCache[page].content,
          expired |-> 0]
    ELSE [server |-> [s EXCEPT !.responseCache = MapErase(@, page),
                               !.currentCacheSize = @ - 1],
          hit |-> FALSE, cachedResponse |-> <<>>, expired |-> 1]

\* checkResponseCache at simTime() = t: the server afterwards, whether it is a hit,
\* the content handed back and the number reported on cacheExpiredSignal
checkResponseCache(s, page, t) ==
    IF page \notin DOMAIN s.responseCache
    THEN [server |-> s, hit |-> FALSE, cachedResponse |-> <<>>, expired |-> 0]
    ELSE IF ~isExpired(s.responseCache[page], t)
    THEN [server |-> [s EXCEPT !.responseCache[page] = updateAccess(@, t)],
          hit |-> TRUE,
          cachedResponse |-> s.responseCache[page].content,
          expired |-> 0]
    ELSE [server |-> [cancelExpiryMessage(s, page) EXCEPT
                         !.responseCache = MapErase(@, page),
                         !.currentCacheSize = @ - 1],
          hit |-> FALSE, cachedResponse |-> <<>>, expired |-> 1]

scheduleCacheExpiryEarly(s, pageName, ttlSeconds, t) ==
    LET c == cancelExpiryMessage(s, pageName)
        expiryMsg == [page |-> pageName, arrival |-> t + Seconds(ttlSeconds - 1)]
    IN [c EXCEPT !.cacheExpiryMessages = MapPut(@, pageName, expiryMsg),
                 !.fes = @ \cup {expiryMsg}]

\* scheduleCacheExpiry at simTime() = t
scheduleCacheExpiry(s, pageName, ttlSeconds, t) ==
    LET c == cancelExpiryMessage(s, pageName)
        expiryMsg == [page |-> pageName, arrival |-> t + Seconds(ttlSeconds)]
    IN [c EXCEPT !.cacheExpiryMessages = MapPut(@, pageName, expiryMsg),
                 !.fes = @ \cup {expiryMsg}]

handleCacheExpiryKeepRegistry(s, pageName) ==
    IF pageName \in DOMAIN s.responseCache
    THEN [s EXCEPT !.responseCache = MapErase(@, pageName),
                   !.currentCacheSize = @ - 1]
    ELSE s

handleCacheExpiryNoDecrement(s, pageName) ==
    [s EXCEPT !.responseCache = MapErase(@, pageName),
              !.cacheExpiryMessages = MapErase(@, pageName)]

\* handleCacheExpiry
handleCacheExpiry(s, pageName) ==
    LET c == IF pageName \in DOMAIN s.responseCache
             THEN [s EXCEPT !.responseCache = MapErase(@, pageName),
                            !.currentCacheSize = @ - 1]
             ELSE s
    IN [c EXCEPT !.cacheExpiryMessages = MapErase(@, pageName)]

RECURSIVE cleanupScanSkipAfterErase(_, _, _)
cleanupScanSkipAfterErase(s, keys, t) ==
    IF keys = <<>> THEN s
    ELSE LET k == Head(keys)
         IN IF isExpired(s.responseCache[k], t)
            THEN cleanupScanSkipAfterErase(
                     [cancelExpiryMessage(s, k) EXCEPT
                         !.responseCache = MapErase(@, k),
                         !.currentCacheSize = @ - 1],
                     IF Len(keys) > 1 THEN Tail(Tail(keys)) ELSE <<>>, t)
            ELSE cleanupScanSkipAfterErase(s, Tail(keys), t)

RECURSIVE cleanupScan(_, _, _)
\* the loop of cleanupExpiredCache over the keys still to visit
cleanupScan(s, keys, t) ==
    IF keys = <<>> THEN s
    ELSE LET k == Head(keys)
         IN IF isExpired(s.responseCache[k], t)
            THEN cleanupScan([cancelExpiryMessage(s, k) EXCEPT
                                 !.responseCache = MapErase(@, k),
                                 !.currentCacheSize = @ - 1],
                             Tail(keys), t)
            ELSE cleanupScan(s, Tail(keys), t)

\* cleanupExpiredCache at simTime() = t
cleanupExpiredCache(s, t) ==
    cleanupScan(s, NamesInOrder(DOMAIN s.responseCache, 1), t)

RECURSIVE lruScan(_, _, _)
\* the loop of evictLeastRecentlyUsed: the key kept in lruIt
lruScan(cache, keys, lru) ==
    IF keys = <<>> THEN lru
    ELSE lruScan(cache, Tail(keys),
            IF cache[Head(keys)].lastAccess < cache[lru].lastAccess THEN Head(keys) ELSE lru)

evictLeastRecentlyUsedKeepTimer(s) ==
    IF DOMAIN s.responseCache = {} THEN s
    ELSE LET keys == NamesInOrder(DOMAIN s.responseCache, 1)
             lru == lruScan(s.responseCache, keys, Head(keys))
         IN [s EXCEPT !.responseCache = MapErase(@, lru),
                      !.cacheExpiryMessages = MapErase(@, lru),
                      !.currentCacheSize = @ - 1]

\* evictLeastRecentlyUsed
evictLeastRecentlyUsed(s) ==
    IF DOMAIN s.responseCache = {} THEN s
    ELSE LET keys == NamesInOrder(DOMAIN s.responseCache, 1)
             lru == lruScan(s.responseCache, keys, Head(keys))
         IN [cancelExpiryMessage(s, lru) EXCEPT
                !.responseCache = MapErase(@, lru),
                !.currentCacheSize = @ - 1]

addToCacheNoEviction(s, pageName, entry, t) ==
    [s EXCEPT !.responseCache = MapPut(@, pageName, entry),
              !.currentCacheSize = @ + 1]

\* addToCacheWithManagement at simTime() = t (it always returns true)
addToCacheWithManagement(s, pageName, entry, t) ==
    LET swept == IF s.currentCacheSize >= s.maxCacheSize
                 THEN cleanupExpiredCache(s, t) ELSE s
        room == IF s.currentCacheSize >= s.maxCacheSize
                   /\ swept.currentCacheSize >= swept.maxCacheSize
                THEN evictLeastRecentlyUsed(swept) ELSE swept
    IN [room EXCEPT !.responseCache = MapPut(@, pageName, entry),
                    !.currentCacheSize = @ + 1]

preCacheTargetRefresh(s, toPage, t) ==
    LET cached == toPage \in DOMAIN s.responseCache
        dropped == IF cached
                   THEN [s EXCEPT !.responseCache = MapErase(@, toPage)]
                   ELSE s
        cacheEntry == [CacheEntry(-1, generatePageContent(toPage), PreCacheTtl, t)
                          EXCEPT !.timestamp = t]
    IN scheduleCacheExpiry(
           addToCacheWithManagement(dropped, toPage, cacheEntry, t),
           toPage, PreCacheExpiryDelay, t)

\* predictivePreCache, for one successor toPage whose probability exceeds
\* predictionThreshold, at simTime() = t
preCacheTarget(s, toPage, t) ==
    LET cached == toPage \in DOMAIN s.responseCache
    IN IF cached /\ ~isExpired(s.responseCache[toPage], t)
       THEN s
       ELSE LET dropped == IF cached
                           THEN [s EXCEPT !.responseCache = MapErase(@, toPage)]
                           ELSE s
                cacheEntry == [CacheEntry(-1, generatePageContent(toPage), PreCacheTtl, t)
                                  EXCEPT !.timestamp = t]
            IN scheduleCacheExpiry(
                   addToCacheWithManagement(dropped, toPage, cacheEntry, t),
                   toPage, PreCacheExpiryDelay, t)

RECURSIVE preCacheScanAtLeast(_, _, _, _)
preCacheScanAtLeast(s, currentPage, targets, t) ==
    IF targets = <<>> THEN s
    ELSE LET toPage == Head(targets)
             probability == calculateTransitionProbability(s, currentPage, toPage)
         IN preCacheScanAtLeast(
                IF RatGE(probability, s.predictionThreshold)
                THEN preCacheTarget(s, toPage, t) ELSE s,
                currentPage, Tail(targets), t)

RECURSIVE preCacheScan(_, _, _, _)
\* the loop of predictivePreCache over the patternTable entries whose fromPage is
\* currentPage, given by their toPage in map order
preCacheScan(s, currentPage, targets, t) ==
    IF targets = <<>> THEN s
    ELSE LET toPage == Head(targets)
             probability == calculateTransitionProbability(s, currentPage, toPage)
         IN preCacheScan(
                IF RatGT(probability, s.predictionThreshold)
                THEN preCacheTarget(s, toPage, t) ELSE s,
                currentPage, Tail(targets), t)

\* predictivePreCache at simTime() = t
predictivePreCache(s, currentPage, t) ==
    preCacheScan(s, currentPage,
                 NamesInOrder({k[2] : k \in {x \in DOMAIN s.patternTable : x[1] = currentPage}}, 1),
                 t)

----------------------------------------------------------------------------
(* HttpServer: the request flow *)

\* an HttpRequest as the server reads it, with the index of the gate it arrived on
HttpRequest(requestId, clientId, resourceId, fromPage, arrivalGate, timestamp) ==
    [ requestId |-> requestId, clientId |-> clientId, resourceId |-> resourceId,
      fromPage |-> fromPage, arrivalGate |-> arrivalGate, timestamp |-> timestamp ]

\* an HttpResponse with the fields the server sets
HttpResponse(requestId, resourceId, content, timestamp, ttl, cacheable) ==
    [ requestId |-> requestId, resourceId |-> resourceId, content |-> content,
      timestamp |-> timestamp, ttl |-> ttl, cacheable |-> cacheable ]

\* the self-message a request is turned into: "CachedResponse" carries the cached
\* content, "DelayedProcessing" carries none
ResponseMessage(name, request, content, arrival) ==
    [ name |-> name, requestId |-> request.requestId, clientId |-> request.clientId,
      resourceId |-> request.resourceId, fromPage |-> request.fromPage,
      arrivalGate |-> request.arrivalGate, content |-> content, arrival |-> arrival ]

sendOnFirstGate(s, response, arrivalGate) ==
    [s EXCEPT !.out = Append(@, [gate |-> 0, msg |-> response])]

\* send(response, "out", arrivalGate)
send(s, response, arrivalGate) ==
    [s EXCEPT !.out = Append(@, [gate |-> arrivalGate, msg |-> response])]

\* handleHttpRequest at simTime() = t; cacheDelay and delay are the values the two
\* delay distributions would draw
handleHttpRequest(s, request, t, cacheDelay, delay) ==
    LET counted == [s EXCEPT !.requestsReceived = @ + 1,
                             !.requestStartTimes = MapPut(@, request.requestId, t)]
        r == checkResponseCache(counted, getPageName(request.resourceId), t)
    IN IF r.hit
       THEN [r.server EXCEPT
                !.totalCacheHits = @ + 1,
                !.scheduled = Append(@, ResponseMessage("CachedResponse", request,
                                                        r.cachedResponse, t + cacheDelay))]
       ELSE [r.server EXCEPT
                !.totalCacheMisses = @ + 1,
                !.scheduled = Append(@, ResponseMessage("DelayedProcessing", request,
                                                        <<>>, t + delay))]

\* the response times emitted once the response numbered `response` in out is sent
\* at simTime() = t: the values emitted on responseTimeSignal (each followed by one
\* requestComplete), every one with the position in out of the response it was
\* emitted after; nothing is emitted for a requestId without a start time
emitResponseTime(responseTimes, requestStartTimes, requestId, response, t) ==
    IF requestId \in DOMAIN requestStartTimes
    THEN Append(responseTimes, [response |-> response,
                                responseTime |-> t - requestStartTimes[requestId]])
    ELSE responseTimes

\* what both handlers do once the response of a served page is built: send it,
\* count it, close the request's timing, learn the transition, pre-cache
servePage(s, msg, response, t) ==
    LET sent == [send(s, response, msg.arrivalGate) EXCEPT
                    !.responsesGenerated = @ + 1,
                    !.responseTimes = emitResponseTime(@, s.requestStartTimes,
                                                       msg.requestId, Len(s.out) + 1, t),
                    !.requestStartTimes = MapErase(@, msg.requestId)]
    IN With(With(sent, LAMBDA x : learnServedPage(x, msg.clientId, msg.fromPage,
                                                  msg.resourceId)),
            LAMBDA learned : predictivePreCache(learned, getPageName(msg.resourceId), t))

\* handleMessage, the "CachedResponse" branch, at simTime() = t
handleCachedResponse(s, msg, t) ==
    servePage(s, msg,
              HttpResponse(msg.requestId, msg.resourceId, msg.content, t, 3600, TRUE), t)

\* HttpServer::getPageInfo: whether a page is registered under pageId
getPageInfo(s, pageId) == pageId \in DOMAIN s.webPages

\* processDelayedRequest at simTime() = t
processDelayedRequest(s, msg, t) ==
    IF getPageInfo(s, msg.resourceId)
    THEN LET pageInfo == s.webPages[msg.resourceId]
         IN servePage(s, msg,
                      HttpResponse(msg.requestId, msg.resourceId, pageInfo.content,
                                   t, pageInfo.ttl, TRUE), t)
    ELSE [send(s, HttpResponse(msg.requestId, msg.resourceId, <<"error", "404">>,
                               t, 300, FALSE), msg.arrivalGate)
             EXCEPT !.responsesGenerated = @ + 1,
                    !.responseTimes = emitResponseTime(@, s.requestStartTimes,
                                                       msg.requestId, Len(s.out) + 1, t),
                    !.requestStartTimes = MapErase(@, msg.requestId)]

----------------------------------------------------------------------------
(* HttpClient *)

\* nextRequestTimer is not in the future event set
NoTimer == -1

\* predictablePattern = {HOME, LOGIN, DASHBOARD}
predictablePattern == <<0, 1, 2>>

\* HttpClient::initialize of the client with index `index` at simTime() = 0;
\* firstDelay is the value uniform(0.1, 0.5) draws.  rescheduled records that
\* scheduleAt was called for nextRequestTimer while it was scheduled
NewHttpClient(index, firstDelay) ==
    [ clientId |-> index,
      requestCounter |-> 0,
      requestsSent |-> 0,
      responsesReceived |-> 0,
      currentPatternStep |-> 0,
      currentPage |-> 0,
      pendingRequests |-> EmptyMap,
      nextRequestTimer |-> 0 + firstDelay,
      rescheduled |-> FALSE ]

\* selectNextPage: followPattern is the outcome of patternChoice(rng) < 0.8 and
\* randomPage the value randomPageChoice(rng) draws
selectNextPage(c, followPattern, randomPage) ==
    IF followPattern
    THEN [client |-> [c EXCEPT !.currentPatternStep = (@ + 1) % Len(predictablePattern)],
          page |-> predictablePattern[c.currentPatternStep + 1]]
    ELSE [client |-> c, page |-> randomPage]

\* sendHttpRequest at simTime() = t: the client afterwards and the request sent on
\* "out", which reaches the server on the gate of the client's index
sendHttpRequest(c, pageId, t) ==
    [client |-> [c EXCEPT !.requestCounter = @ + 1,
                          !.requestsSent = @ + 1,
                          !.pendingRequests = MapPut(@, c.requestCounter + 1, t)],
     request |-> HttpRequest(c.requestCounter + 1, c.clientId, pageId, c.currentPage,
                             c.clientId, t)]

\* scheduleNextRequest at simTime() = t; thinkTime is the value
\* thinkTimeDistribution(rng) draws
scheduleNextRequest(c, thinkTime, t) ==
    [c EXCEPT !.rescheduled = @ \/ c.nextRequestTimer # NoTimer,
              !.nextRequestTimer = t + thinkTime]

handleNextRequestTimerRearm(c, followPattern, randomPage, t) ==
    LET selected == selectNextPage([c EXCEPT !.nextRequestTimer = NoTimer],
                                   followPattern, randomPage)
        sent == sendHttpRequest(selected.client, selected.page, t)
    IN [client |-> scheduleNextRequest(
                       [sent.client EXCEPT !.currentPage = selected.page], Seconds(1), t),
        request |-> sent.request]

\* handleMessage, the nextRequestTimer branch, at simTime() = t
handleNextRequestTimer(c, followPattern, randomPage, t) ==
    LET selected == selectNextPage([c EXCEPT !.nextRequestTimer = NoTimer],
                                   followPattern, randomPage)
        sent == sendHttpRequest(selected.client, selected.page, t)
    IN [client |-> [sent.client EXCEPT !.currentPage = selected.page],
        request |-> sent.request]

\* handleHttpResponse at simTime() = t
handleHttpResponse(c, response, thinkTime, t) ==
    scheduleNextRequest(
        [c EXCEPT !.responsesReceived = @ + 1,
                  !.pendingRequests = MapErase(@, response.requestId)],
        thinkTime, t)

\* HttpClient::finish: cancelAndDelete(nextRequestTimer)
clientFinish(c) == [c EXCEPT !.nextRequestTimer = NoTimer]

\* HttpServer::finish: the CacheCleanup timer and every registered CacheExpiry_
\* message that is scheduled are cancelled and the registry is cleared; the cache
\* itself, the response self-messages and the counters stay as they are
finish(s) ==
    [s EXCEPT !.cacheCleanupTimer = NoTimer,
              !.fes = @ \ {s.cacheExpiryMessages[k] : k \in DOMAIN s.cacheExpiryMessages},
              !.cacheExpiryMessages = EmptyMap]

\* no message is on its way between the modules
\* linkDelay[c] is the delay of the link between client c and the server
NoMessages == [toServer |-> {}, toClients |-> {}, linkDelay |-> EmptyMap]

\* the delay of the link on gate c of the server
LinkDelay(net, c) == IF c \in DOMAIN net.linkDelay THEN net.linkDelay[c] ELSE 0

\* send(request, "out") of the client with index c at simTime() = t: the request is
\* on its way to the server's gate c for linkDelay
sendToServer(net, c, request, linkDelay, t) ==
    [net EXCEPT !.toServer = @ \cup {[gate |-> c, msg |-> request,
                                      arrival |-> t + linkDelay]}]

\* the response o, sent on gate o.gate of the server at simTime() = t, is on its way
\* for linkDelay to the client connected there, if any
sendToClient(net, cl, o, linkDelay, t) ==
    IF o.gate \in DOMAIN cl
    THEN [net EXCEPT !.toClients = @ \cup {[gate |-> o.gate, msg |-> o.msg,
                                            arrival |-> t + linkDelay]}]
    ELSE net

----------------------------------------------------------------------------
(* The server driven by messages: discrete-event execution of handleMessage. *)
(* Every step is one delivery to handleMessage, handled to its end: an       *)
(* HttpRequest, the CacheCleanup timer, a CacheExpiry_ timer, or a           *)
(* CachedResponse / DelayedProcessing self-message.                          *)

\* number of requests delivered in a run
MaxRequests == 3
\* number of requests delivered in a run that looks at the response cache
MaxCacheRequests == 4
\* number of requests delivered in a run that looks at predictivePreCache
MaxPreCacheRequests == 6
\* largest capacity a cache method is tried with, and largest cacheSize of the
\* policy-based server
MaxCap == 2
\* last instant, in seconds, at which events are delivered
MaxTime == 10
\* largest count of a transition in the pattern maps tried
MaxCount == 3
\* last instant, in seconds, at which events are delivered in a run with several
\* clients
MaxNetTime == 4

\* the pages whose responses are looked up and pre-cached
CacheKeys == {getPageName(0), getPageName(1), getPageName(2)}

\* the runs that look at the response cache
CacheUnits == {"Cache", "PreCache"}

\* the runs in which requests reach the server from outside the model, and the runs
\* in which the server is driven by messages
RequestUnits == {"Server", "Learner", "Cache", "PreCache"}
ServerUnits == RequestUnits \cup {"Network"}

\* the requests tried, as <<fromPage, resourceId>>: "home" at the start of a
\* session, "login" from "home", "login" from "login", and a resource id that is
\* not registered
RequestKinds == {<<-1, 0>>, <<0, 1>>, <<1, 1>>, <<0, 7>>}

\* the requests of the run that looks at the learner: two successors of "home"
LearnerRequestKinds == {<<-1, 0>>, <<0, 1>>, <<0, 2>>, <<1, 1>>}

\* the requests of the run that looks at the response cache: "login" from "home"
\* and "home" from "login", from which the server learns to pre-cache each of the
\* two pages when it serves the other, and "dashboard" from "home", a second
\* successor of "home"
CacheRequestKinds == {<<0, 1>>, <<1, 0>>, <<0, 2>>}

\* the requests of the run that looks at predictivePreCache: "login" and
\* "dashboard" from "home", from which the server learns the two successors of
\* "home", and "home" at the start of a session
PreCacheRequestKinds == {<<0, 1>>, <<0, 2>>, <<-1, 0>>}

RequestKindsOf(u) ==
    CASE u = "Cache" -> CacheRequestKinds
      [] u = "PreCache" -> PreCacheRequestKinds
      [] u = "Learner" -> LearnerRequestKinds
      [] OTHER -> RequestKinds

\* the number of requests delivered in a run
RequestsOf(u) ==
    CASE u = "Cache" -> MaxCacheRequests
      [] u = "PreCache" -> MaxPreCacheRequests
      [] OTHER -> MaxRequests

\* client i is connected to gate i
Gates == {0, 1}

\* the gates requests arrive on in a run
GatesOf(u) == IF u = "Server" THEN Gates ELSE {0}

\* a value drawn from cacheHitDelayDistribution, uniform in [0.01, 0.02) s, and one
\* drawn from delayDistribution, uniform in [0.1, 0.2) s
CacheHitDelays == {(3 * TicksPerSecond) \div 200}
ProcessingDelays == {(3 * TicksPerSecond) \div 20}

\* the delay of the link between a client and the server in a run: none, or
\* 0.01 s
LinkDelays == {0, TicksPerSecond \div 100}

\* the last instant at which events are delivered; the run that looks at the
\* response cache goes on for one more cleanup interval, and a run with several
\* clients ends earlier than the run with one client
EndOfRun ==
    CASE unit = "Cache" -> Seconds(MaxTime + cacheCleanupInterval)
      [] unit = "Network" /\ Cardinality(DOMAIN clients) > 1 -> Seconds(MaxNetTime)
      [] OTHER -> Seconds(MaxTime)

\* the clients whose nextRequestTimer is scheduled
WaitingClients == {c \in DOMAIN clients : clients[c].nextRequestTimer # NoTimer}

\* the simulation runs: finish() has not been called
Running == lastCall.op # "finish"

\* the arrival times of the events in the future event set
EventTimes ==
    ({server.cacheCleanupTimer} \ {NoTimer})
       \cup {m.arrival : m \in server.fes}
       \cup {server.scheduled[i].arrival : i \in DOMAIN server.scheduled}
       \cup {clients[c].nextRequestTimer : c \in WaitingClients}
       \cup {m.arrival : m \in network.toServer \cup network.toClients}

\* the arrival time of the earliest event in the future event set, NoTimer when
\* the set is empty
NextEventTime ==
    With(EventTimes,
         LAMBDA times : IF times = {} THEN NoTimer
                        ELSE CHOOSE t \in times : \A u \in times : t <= u)

\* the server's self-messages of equal arrival time are delivered in the order they
\* were scheduled: the CacheCleanup timer (scheduled 10 s ahead) before a
\* CacheExpiry_ timer (5 s ahead) before a response self-message (at most 0.2 s
\* ahead), and response self-messages among themselves in the order of scheduled.
\* A message that arrives over a link, or a client's timer, of the same arrival
\* time is delivered before or after them
CleanupNext ==
    server.cacheCleanupTimer # NoTimer /\ server.cacheCleanupTimer = NextEventTime
ExpiryNext == ~CleanupNext /\ NextEventTime \in {m.arrival : m \in server.fes}
ResponseNext ==
    /\ ~CleanupNext /\ ~ExpiryNext
    /\ NextEventTime \in {server.scheduled[i].arrival : i \in DOMAIN server.scheduled}

\* a timer message is due at the current instant
ExpiryDue == \E m \in server.fes : m.arrival = now
CleanupDue == server.cacheCleanupTimer = now

\* a value thinkTimeDistribution draws, uniform in [1.0, 2.0) s
ThinkTimes == {Seconds(1)}

\* the index in scheduled of the response self-message delivered next
NextResponse ==
    With(NextEventTime,
         LAMBDA t : CHOOSE i \in DOMAIN server.scheduled :
                       /\ server.scheduled[i].arrival = t
                       /\ \A j \in 1 .. i - 1 : server.scheduled[j].arrival # t)

\* scheduled without its i-th message
Unschedule(q, i) == SubSeq(q, 1, i - 1) \o SubSeq(q, i + 1, Len(q))

\* the arrival times of a request whose response, after normal processing, is sent
\* exactly one pre-cache TTL before the first sweep
SweepAlignedArrivals ==
    {Seconds(cacheCleanupInterval - PreCacheTtl) - delay : delay \in ProcessingDelays}

\* the instants at which the next request can arrive.  The network is not part of
\* the server: a request can arrive at the current instant and, in the runs of the
\* response cache, at the instant of the next scheduled event, before that event
\* is delivered, or at an instant in between that is aligned with the sweep
ArrivalTimes ==
    IF unit = "Cache"
    THEN {t \in {now, NextEventTime} \cup SweepAlignedArrivals :
             now <= t /\ t <= NextEventTime}
    ELSE {now}

\* what is remembered of the last call: its name and what it returned or did
Call(op, result) == [op |-> op, result |-> result]

\* the keys a handler that turned the cache from old into new has stored
InsertedBy(old, new) ==
    {k \in DOMAIN new : k \notin DOMAIN old \/ new[k] # old[k]}

\* the keys a handler that turned the cache from old into new has removed
RemovedBy(old, new) == DOMAIN old \ DOMAIN new

\* the keys of cache in the order of their insertion, after a handler that
\* left the cache as newCache and inserted the keys in inserted
OrderAfter(order, newCache, inserted) ==
    LET kept(k) == k \in DOMAIN newCache /\ k \notin inserted
        added == NamesInOrder(inserted, 1)
    IN SelectSeq(order, kept) \o added

\* what is remembered of a response handler that served msg at simTime() = t and
\* turned the cache from old into new: the page served, the keys predictivePreCache
\* stored and the unexpired entries it evicted
Served(msg, old, new, t) ==
    [ requestId |-> msg.requestId,
      page |-> getPageName(msg.resourceId),
      inserted |-> InsertedBy(old, new),
      evicted |-> {k \in RemovedBy(old, new) : ~isExpired(old[k], t)} ]

\* what is remembered of handleHttpRequest, which turned the server from old into
\* handled
Looked(request, old, handled) ==
    [ requestId |-> request.requestId,
      page |-> getPageName(request.resourceId),
      hit |-> handled.totalCacheHits > old.totalCacheHits,
      expired |-> Cardinality(RemovedBy(old.responseCache, handled.responseCache)) ]

\* the request as it is kept in requests: its fields and simTime() at its arrival
Arrived(request, t) ==
    [ requestId |-> request.requestId, clientId |-> request.clientId,
      resourceId |-> request.resourceId, fromPage |-> request.fromPage,
      arrivalGate |-> request.arrivalGate, timestamp |-> request.timestamp,
      arrival |-> t ]

\* the simulation ends, at the current instant or before the next event: the kernel
\* calls finish() of the server and of every client, and delivers nothing afterwards
Finish ==
    /\ unit \in ServerUnits
    /\ Running
    /\ server' = finish(server)
    /\ clients' = [c \in DOMAIN clients |-> clientFinish(clients[c])]
    /\ lastCall' = Call("finish", <<>>)
    /\ UNCHANGED <<unit, table, now, insertOrder, requests, network>>

\* handleMessage: an HttpRequest arrives from outside the model and
\* handleHttpRequest runs
ReceiveRequest ==
    /\ unit \in RequestUnits
    /\ Running
    /\ Len(requests) < RequestsOf(unit)
    /\ \E kind \in RequestKindsOf(unit), arrivalGate \in GatesOf(unit), t \in ArrivalTimes,
          cacheDelay \in CacheHitDelays, delay \in ProcessingDelays :
          /\ t + Seconds(1) <= EndOfRun
          /\ \E request \in {HttpRequest(Len(requests) + 1, arrivalGate, kind[2],
                                         kind[1], arrivalGate, t)} :
                \E handled \in {handleHttpRequest(server, request, t, cacheDelay, delay)} :
                   /\ now' = t
                   /\ server' = handled
                   /\ requests' = Append(requests, Arrived(request, t))
                   /\ insertOrder' = OrderAfter(insertOrder, handled.responseCache, {})
                   /\ lastCall' = Call("handleHttpRequest", Looked(request, server, handled))
    /\ UNCHANGED <<unit, table, clients, network>>

DeliverCacheCleanupOnce ==
    /\ unit \in ServerUnits
    /\ Running
    /\ CleanupNext
    /\ \E t \in {NextEventTime} :
          /\ t <= EndOfRun
          /\ now' = t
          /\ \E swept \in {cleanupExpiredCache(server, t)} :
                /\ server' = [swept EXCEPT !.cacheCleanupTimer = -1]
                /\ insertOrder' = OrderAfter(insertOrder, swept.responseCache, {})
                /\ lastCall' = Call("cleanupExpiredCache",
                      [removed |-> RemovedBy(server.responseCache, swept.responseCache)])
    /\ UNCHANGED <<unit, table, requests, clients, network>>

\* handleMessage: the CacheCleanup timer is delivered and scheduled again
DeliverCacheCleanup ==
    /\ unit \in ServerUnits
    /\ Running
    /\ CleanupNext
    /\ \E t \in {NextEventTime} :
          /\ t <= EndOfRun
          /\ now' = t
          /\ \E swept \in {cleanupExpiredCache(server, t)} :
                /\ server' = [swept EXCEPT
                                 !.cacheCleanupTimer = t + Seconds(cacheCleanupInterval)]
                /\ insertOrder' = OrderAfter(insertOrder, swept.responseCache, {})
                /\ lastCall' = Call("cleanupExpiredCache",
                      [removed |-> RemovedBy(server.responseCache, swept.responseCache)])
    /\ UNCHANGED <<unit, table, requests, clients, network>>

\* handleMessage: a CacheExpiry_ timer is delivered
DeliverCacheExpiry ==
    /\ unit \in ServerUnits
    /\ Running
    /\ ExpiryNext
    /\ \E t \in {NextEventTime}, m \in server.fes :
          /\ t <= EndOfRun
          /\ m.arrival = t
          /\ now' = t
          /\ \E handled \in {handleCacheExpiry(server, m.page)} :
                /\ server' = [handled EXCEPT !.fes = @ \ {m}]
                /\ insertOrder' = OrderAfter(insertOrder, handled.responseCache, {})
          /\ lastCall' = Call("handleCacheExpiry",
                              [page |-> m.page,
                               removed |-> IF m.page \in DOMAIN server.responseCache
                                           THEN {server.responseCache[m.page]} ELSE {}])
    /\ UNCHANGED <<unit, table, requests, clients, network>>

\* handleMessage: a CachedResponse self-message is delivered; the response it sends
\* is on its way to the client
DeliverCachedResponse ==
    /\ unit \in ServerUnits
    /\ Running
    /\ ResponseNext
    /\ \E i \in {NextResponse} :
          \E msg \in {server.scheduled[i]},
             taken \in {[server EXCEPT !.scheduled = Unschedule(@, i)]} :
             /\ msg.name = "CachedResponse"
             /\ msg.arrival <= EndOfRun
             /\ now' = msg.arrival
             /\ \E handled \in {handleCachedResponse(taken, msg, msg.arrival)},
                   linkDelay \in {LinkDelay(network, msg.arrivalGate)} :
                   /\ server' = handled
                   /\ network' = sendToClient(network, clients,
                                              handled.out[Len(handled.out)],
                                              linkDelay, msg.arrival)
                   /\ insertOrder' =
                         OrderAfter(insertOrder, handled.responseCache,
                                    InsertedBy(server.responseCache, handled.responseCache))
                   /\ lastCall' = Call("CachedResponse",
                                       Served(msg, server.responseCache,
                                              handled.responseCache, msg.arrival))
    /\ UNCHANGED <<unit, table, requests, clients>>

\* handleMessage: a DelayedProcessing self-message is delivered; the response it
\* sends is on its way to the client
DeliverDelayedProcessing ==
    /\ unit \in ServerUnits
    /\ Running
    /\ ResponseNext
    /\ \E i \in {NextResponse} :
          \E msg \in {server.scheduled[i]},
             taken \in {[server EXCEPT !.scheduled = Unschedule(@, i)]} :
             /\ msg.name = "DelayedProcessing"
             /\ msg.arrival <= EndOfRun
             /\ now' = msg.arrival
             /\ \E handled \in {processDelayedRequest(taken, msg, msg.arrival)},
                   linkDelay \in {LinkDelay(network, msg.arrivalGate)} :
                   /\ server' = handled
                   /\ network' = sendToClient(network, clients,
                                              handled.out[Len(handled.out)],
                                              linkDelay, msg.arrival)
                   /\ insertOrder' =
                         OrderAfter(insertOrder, handled.responseCache,
                                    InsertedBy(server.responseCache, handled.responseCache))
                   /\ lastCall' = Call("processDelayedRequest",
                                       Served(msg, server.responseCache,
                                              handled.responseCache, msg.arrival))
    /\ UNCHANGED <<unit, table, requests, clients>>

----------------------------------------------------------------------------
(* The PatternTable driven by its public methods, and the server's learner *)
(* driven by the requests the server serves                                *)

PageSequences ==
    {<<>>} \cup {<<a>> : a \in PageInputs}
           \cup {<<a, b>> : a \in ValidPages, b \in PageInputs}
           \cup {<<a, b, c>> : a \in ValidPages, b \in PageInputs, c \in ValidPages}

\* what is remembered of a call on the PatternTable: whether it was a learning call
\* that returned at its validation, leaving the object as it was
Learned(old, new) == IF new = old THEN Call("rejected", <<>>) ELSE Call("accepted", <<>>)

\* the runs that learn into and query a PatternTable object
TableUnits == {"PatternTable", "Tuning"}

\* the counts handed to updatePattern and the factors handed to decay in a run
IncrementsOf(u) == IF u = "Decaying" THEN LargeIncrements ELSE Increments
FactorsOf(u) == IF u = "Decaying" THEN Factors \cup RoundedFactors ELSE Factors
\* the pages a run learns transitions from: the run with large counts learns the
\* successors of one page
SourcesOf(u) == IF u = "Decaying" THEN {0} ELSE PageInputs

InitTable ==
    /\ unit \in {"PatternTable", "Learner"}
    /\ \/ /\ unit = "PatternTable"
          /\ \E th \in Thresholds, mp \in MaxPredChoices : table = NewPatternTable(th, mp)
       \/ /\ unit = "Learner"
          /\ table = NewPatternTable(<<1, 10>>, 5)
    /\ server = NewHttpServer(DefaultMaxCacheSize)
    /\ now = 0
    /\ lastCall = Call("init", <<>>)
    /\ insertOrder = <<>>
    /\ requests = <<>>
    /\ clients = EmptyMap
    /\ network = NoMessages

RecordTransition ==
    /\ unit \in TableUnits
    /\ table.totalUpdates < MaxUpdates
    /\ \E f \in PageInputs, t \in PageInputs :
          /\ table' = recordTransition(table, f, t)
          /\ lastCall' = Learned(table, recordTransition(table, f, t))
    /\ UNCHANGED <<unit, server, now, insertOrder, requests, clients, network>>

RecordSequence ==
    /\ unit = "PatternTable"
    /\ \E ps \in PageSequences :
          /\ table.totalUpdates + Len(ps) - 1 <= MaxUpdates
          /\ table' = recordSequence(table, ps)
          /\ lastCall' = Learned(table, recordSequence(table, ps))
    /\ UNCHANGED <<unit, server, now, insertOrder, requests, clients, network>>

UpdatePattern ==
    /\ unit \in TableUnits \cup {"Decaying"}
    /\ table.totalUpdates < MaxUpdates
    /\ \E f \in SourcesOf(unit), t \in PageInputs, c \in IncrementsOf(unit) :
          /\ table' = updatePattern(table, f, t, c)
          /\ lastCall' = Learned(table, updatePattern(table, f, t, c))
    /\ UNCHANGED <<unit, server, now, insertOrder, requests, clients, network>>

GetPredictions ==
    /\ unit \in TableUnits \cup {"Decaying"}
    /\ table.predictionRequests < MaxQueries
    /\ \E p \in PageInputs :
          LET r == getPredictions(table, p)
          IN /\ table' = r.table
             /\ lastCall' = Call("accepted", <<>>)
    /\ UNCHANGED <<unit, server, now, insertOrder, requests, clients, network>>

\* getPredictionsWithConfidence counts the request and leaves the memoized lists alone
GetPredictionsWithConfidence ==
    /\ unit \in TableUnits \cup {"Decaying"}
    /\ table.predictionRequests < MaxQueries
    /\ \E p \in PageInputs :
          /\ table' = getPredictionsWithConfidence(table, p).table
          /\ lastCall' = Call("accepted", <<>>)
    /\ UNCHANGED <<unit, server, now, insertOrder, requests, clients, network>>

Decay ==
    /\ unit \in {"PatternTable", "Decaying"}
    /\ \E f \in FactorsOf(unit) :
          /\ table' = decay(table, f)
          /\ lastCall' = Call("accepted", <<>>)
    /\ UNCHANGED <<unit, server, now, insertOrder, requests, clients, network>>

Compact ==
    /\ unit = "PatternTable"
    /\ \E m \in MinCounts :
          /\ table' = compact(table, m)
          /\ lastCall' = Call("accepted", <<>>)
    /\ UNCHANGED <<unit, server, now, insertOrder, requests, clients, network>>

Clear ==
    /\ unit = "PatternTable"
    /\ table' = clear(table)
    /\ lastCall' = Call("accepted", <<>>)
    /\ UNCHANGED <<unit, server, now, insertOrder, requests, clients, network>>

ClearPredictionsCache ==
    /\ unit \in TableUnits \cup {"Decaying"}
    /\ table' = clearPredictionsCache(table)
    /\ lastCall' = Call("accepted", <<>>)
    /\ UNCHANGED <<unit, server, now, insertOrder, requests, clients, network>>

\* thresholds handed to setConfidenceThreshold (doubles n/d)
TunedThresholds == {<<1, 10>>, <<1, 2>>, <<9, 10>>}

SetConfidenceThreshold ==
    /\ unit = "Tuning"
    /\ \E th \in TunedThresholds :
          /\ table' = setConfidenceThreshold(table, th)
          /\ lastCall' = Call("setConfidenceThreshold", <<>>)
    /\ UNCHANGED <<unit, server, now, insertOrder, requests, clients, network>>

SetMaxPredictions ==
    /\ unit = "Tuning"
    /\ \E mp \in MaxPredChoices :
          /\ table' = setMaxPredictions(table, mp)
          /\ lastCall' = Call("setMaxPredictions", <<>>)
    /\ UNCHANGED <<unit, server, now, insertOrder, requests, clients, network>>

SetEnableLearning ==
    /\ unit \in TableUnits \cup {"Decaying"}
    /\ \E enable \in BOOLEAN :
          /\ table' = setEnableLearning(table, enable)
          /\ lastCall' = Call("setEnableLearning", <<>>)
    /\ UNCHANGED <<unit, server, now, insertOrder, requests, clients, network>>

\* the objects a table is assigned from: an object as constructed, and one that
\* has recorded a transition and memoized its prediction
AssignedTables ==
    {NewPatternTable(th, mp) : th \in Thresholds, mp \in MaxPredChoices}
    \cup {getPredictions(recordTransition(NewPatternTable(th, mp), 0, 1), 0).table :
             th \in Thresholds, mp \in MaxPredChoices}

Assign ==
    /\ unit \in TableUnits \cup {"Decaying"}
    /\ \E self \in BOOLEAN :
          \E other \in IF self THEN {table} ELSE AssignedTables :
             /\ table' = assign(table, other, self)
             /\ lastCall' = Call("assign", <<>>)
    /\ UNCHANGED <<unit, server, now, insertOrder, requests, clients, network>>

\* the methods of the PatternTable object, and the messages delivered to the server
\* whose learner is looked at
NextTable ==
    \/ RecordTransition
    \/ RecordSequence
    \/ UpdatePattern
    \/ GetPredictions
    \/ GetPredictionsWithConfidence
    \/ Decay
    \/ Compact
    \/ Clear
    \/ ClearPredictionsCache
    \/ SetEnableLearning
    \/ Assign
    \/ ReceiveRequest
    \/ DeliverCacheCleanup
    \/ DeliverCacheExpiry
    \/ DeliverCachedResponse
    \/ DeliverDelayedProcessing
    \/ Finish

SpecTable == InitTable /\ [][NextTable]_vars

\* ---- a PatternTable whose settings are changed while it is in use ----

InitTuning ==
    /\ unit = "Tuning"
    /\ \E th \in Thresholds, mp \in MaxPredChoices : table = NewPatternTable(th, mp)
    /\ server = NewHttpServer(DefaultMaxCacheSize)
    /\ now = 0
    /\ lastCall = Call("init", <<>>)
    /\ insertOrder = <<>>
    /\ requests = <<>>
    /\ clients = EmptyMap
    /\ network = NoMessages

NextTuning ==
    \/ RecordTransition
    \/ UpdatePattern
    \/ GetPredictions
    \/ GetPredictionsWithConfidence
    \/ ClearPredictionsCache
    \/ SetConfidenceThreshold
    \/ SetMaxPredictions
    \/ SetEnableLearning
    \/ Assign

SpecTuning == InitTuning /\ [][NextTuning]_vars

\* ---- a PatternTable whose counts are large enough for decay to round ----

InitDecay ==
    /\ unit = "Decaying"
    /\ \E th \in Thresholds, mp \in MaxPredChoices : table = NewPatternTable(th, mp)
    /\ server = NewHttpServer(DefaultMaxCacheSize)
    /\ now = 0
    /\ lastCall = Call("init", <<>>)
    /\ insertOrder = <<>>
    /\ requests = <<>>
    /\ clients = EmptyMap
    /\ network = NoMessages

NextDecay ==
    \/ UpdatePattern
    \/ GetPredictions
    \/ GetPredictionsWithConfidence
    \/ Decay
    \/ ClearPredictionsCache
    \/ SetEnableLearning
    \/ Assign

SpecDecay == InitDecay /\ [][NextDecay]_vars

----------------------------------------------------------------------------
(* Properties of the PatternTable and of the server's learner *)

Max(a, b) == IF a >= b THEN a ELSE b
Min(a, b) == IF a <= b THEN a ELSE b

SeqElems(q) == {q[i] : i \in 1 .. Len(q)}

Successors(t, p) == {k[2] : k \in {x \in DOMAIN t.transitions : x[1] = p}}

\* successors of p whose probability reaches the confidence threshold
Qualifying(t, p) ==
    {q \in Successors(t, p) :
        RatGE(getTransitionProbability(t, p, q), t.confidenceThreshold)}

RECURSIVE RatSum(_, _)
\* the exact sum of f[x] over x in S, for ratios f[x]
RatSum(f, S) ==
    IF S = {} THEN <<0, 1>>
    ELSE LET x == CHOOSE y \in S : TRUE
             r == RatSum(f, S \ {x})
         IN <<f[x][1] * r[2] + r[1] * f[x][2], f[x][2] * r[2]>>

\* C5: for every page x, recording the self-transition (x, x) changes no transition
\* count, no per-page total and not the running total, whether it is recorded by
\* PatternTable::recordTransition, updatePattern or recordSequence, or by the
\* server's updatePatternTable.
C5_SelfTransitionRejected ==
    \A x \in ValidPages :
        /\ recordTransition(table, x, x).transitions = table.transitions
        /\ recordTransition(table, x, x).totalTransitions = table.totalTransitions
        /\ updatePattern(table, x, x, 1).transitions = table.transitions
        /\ updatePattern(table, x, x, 1).totalTransitions = table.totalTransitions
        /\ recordSequence(table, <<x, x>>).transitions = table.transitions
        /\ recordSequence(table, <<x, x>>).totalTransitions = table.totalTransitions
        /\ updatePatternTable(server, 0, getPageName(x), getPageName(x)).patternTable
              = server.patternTable

\* the number of items a list cut to its first n items can hold: none when n is
\* 0 or less
Room(n) == Max(0, n)

\* C6: for every page p, getPredictions(p) returns successors of p whose probability
\* count(p,q)/totalFrom(p) is at least confidenceThreshold, in non-increasing order of
\* probability, cut to the first maxPredictions of them: no more than maxPredictions
\* items (none at all when maxPredictions is 0 or less), none below the threshold,
\* none left out in favour of a less probable one; and the empty list when p is
\* invalid or has no outgoing transition.
C6_PredictionBound ==
    \A p \in PageInputs :
        LET r == getPredictions(table, p).result
            pr(q) == getTransitionProbability(table, p, q)
        IN /\ Len(r) <= Room(table.maxPredictions)
           /\ \A i \in 1 .. Len(r) : r[i] \in Qualifying(table, p)
           /\ \A i, j \in 1 .. Len(r) : i < j => (r[i] # r[j] /\ RatGE(pr(r[i]), pr(r[j])))
           /\ Len(r) = Min(Room(table.maxPredictions), Cardinality(Qualifying(table, p)))
           /\ \A q \in Qualifying(table, p) \ SeqElems(r) :
                 \A i \in 1 .. Len(r) : RatGE(pr(r[i]), pr(q))
           /\ (~isValidPage(p) \/ getTotalTransitionsFrom(table, p) = 0) => r = <<>>

\* C7: the memoized list of page p is removed whenever a transition with source p is
\* recorded or counts change (recordTransition, updatePattern, decay, compact, clear),
\* so a memoized entry, if present, equals what a fresh computation from the current
\* counts gives.  A call of recordTransition or updatePattern records a transition
\* when learning is enabled; with learning disabled it records nothing and changes
\* no count.
C7_MemoCoherent ==
    /\ \A p \in DOMAIN table.predictions :
          table.predictions[p] = computePredictions(table, p)
    /\ \A f \in ValidPages, t \in ValidPages :
          IF table.enableLearning
          THEN /\ f \notin DOMAIN recordTransition(table, f, t).predictions
               /\ f \notin DOMAIN updatePattern(table, f, t, 1).predictions
          ELSE /\ recordTransition(table, f, t).transitions = table.transitions
               /\ updatePattern(table, f, t, 1).transitions = table.transitions
    /\ \A fac \in Factors :
          RatGT(fac, <<0, 1>>) /\ RatLT(fac, <<1, 1>>)
             => decay(table, fac).predictions = EmptyMap
    /\ \A m \in MinCounts : compact(table, m).predictions = EmptyMap
    /\ clear(table).predictions = EmptyMap

\* a page has a non-empty memoized list that recording one more transition from the
\* page makes stale: a fresh computation then gives another list, and the recording
\* removes the memoized one
C7_Witness ==
    /\ table.predictionRequests = 1
    /\ \E p \in DOMAIN table.predictions, q \in ValidPages :
          /\ table.predictions[p] # <<>>
          /\ computePredictions(recordTransition(table, p, q), p) # table.predictions[p]
          /\ p \notin DOMAIN recordTransition(table, p, q).predictions

\* the double n/d is the ratio n/d itself: d is a power of two
RECURSIVE IsPowerOfTwo(_)
IsPowerOfTwo(d) == d = 1 \/ (d > 1 /\ d % 2 = 0 /\ IsPowerOfTwo(d \div 2))

\* floor(c*f) for a count c > 0 and a factor f in (0, 1), the product being the
\* double product of c and the double f: at most the floor of the exact product
\* of c and the ratio of f, and equal to it when f is that ratio exactly
FloorOfProduct(c, f) == TruncMul(c, f)

\* C8: decay(f) with 0 < f < 1 replaces every count c by max(1, floor(c*f)), c*f
\* being the product in double precision, removes no transition and clears every
\* memoized list, so the next getPredictions recomputes; decay with f <= 0 or f >= 1
\* changes nothing.
C8_DecayContract ==
    \A f \in Factors \cup RoundedFactors :
        LET d == decay(table, f)
        IN IF RatGT(f, <<0, 1>>) /\ RatLT(f, <<1, 1>>)
           THEN /\ DOMAIN d.transitions = DOMAIN table.transitions
                /\ \A k \in DOMAIN table.transitions :
                      LET exact == (table.transitions[k] * f[1]) \div f[2]
                      IN /\ d.transitions[k] = Max(1, FloorOfProduct(table.transitions[k], f))
                         /\ d.transitions[k] \in {Max(1, exact - 1), Max(1, exact)}
                         /\ IsPowerOfTwo(f[2]) => d.transitions[k] = Max(1, exact)
                /\ d.predictions = EmptyMap
                /\ \A p \in ValidPages :
                      getPredictions(d, p).result = computePredictions(d, p)
           ELSE d = table

\* counts {1, 22} with a memoized list present: decay(0.5) gives {1, 11}, the count
\* of 1 being kept at 1, and decay(15.0/22) gives {1, 14}, the double product
\* 22 * (15.0/22) lying below 15
C8_Witness ==
    /\ DOMAIN table.predictions # {}
    /\ \E k1, k2 \in DOMAIN table.transitions :
          /\ DOMAIN table.transitions = {k1, k2}
          /\ table.transitions[k1] = 1
          /\ table.transitions[k2] = 22
          /\ decay(table, <<1, 2>>).transitions[k1] = 1
          /\ decay(table, <<1, 2>>).transitions[k2] = 11
          /\ decay(table, <<15, 22>>).transitions[k1] = 1
          /\ decay(table, <<15, 22>>).transitions[k2] = 14
          /\ decay(table, <<15, 22>>).predictions = EmptyMap

\* C9: for every page p with totalFrom(p) > 0 the probabilities of the outgoing
\* transitions of p sum to 1: the counts of p's transitions add up to the denominator
\* used by getTransitionProbability, calculateProbabilities and the server's
\* calculateTransitionProbability.
C9_ProbabilityConservation ==
    /\ \A p \in ValidPages :
          getTotalTransitionsFrom(table, p) > 0 =>
             LET cp == calculateProbabilities(table, p)
             IN /\ RatEQ(RatSum([q \in PageInputs |-> getTransitionProbability(table, p, q)],
                                PageInputs), <<1, 1>>)
                /\ RatEQ(RatSum([i \in 1 .. Len(cp) |-> cp[i][2]], 1 .. Len(cp)), <<1, 1>>)
    /\ \A p \in SeqElems(NameOrder) :
          totalFromPageOf(server, p) > 0 =>
             RatEQ(RatSum([q \in SeqElems(NameOrder) |->
                              calculateTransitionProbability(server, p, q)],
                          SeqElems(NameOrder)), <<1, 1>>)

\* a decay has changed the counts of a page with two successors and left the running
\* total different from the sum of the stored counts
C9_Witness ==
    /\ unit = "PatternTable"
    /\ table.totalTransitions # SumCounts(table.transitions, DOMAIN table.transitions)
    /\ \E p \in ValidPages : Cardinality(Successors(table, p)) = 2

\* C10: invalid learning input is a silent no-op: recordTransition or updatePattern
\* with a negative from or to page, and updatePattern with count <= 0, leave the
\* whole object unchanged (counts, running total, update statistics, memoized lists);
\* queries on an invalid page return probability 0 / an empty list.
C10_InvalidInputNoOp ==
    /\ \A f \in PageInputs, t \in PageInputs :
          (~isValidPage(f) \/ ~isValidPage(t)) =>
             /\ recordTransition(table, f, t) = table
             /\ \A c \in Increments : updatePattern(table, f, t, c) = table
             /\ getTransitionProbability(table, f, t) = <<0, 1>>
    /\ \A f \in PageInputs, t \in PageInputs, c \in Increments :
          c <= 0 => updatePattern(table, f, t, c) = table
    /\ \A p \in PageInputs :
          ~isValidPage(p) =>
             /\ getPredictions(table, p).result = <<>>
             /\ getPredictionsWithConfidence(table, p).result = <<>>
             /\ getPredictions(table, p).table.predictions = table.predictions
             /\ getPredictions(table, p).table.transitions = table.transitions

\* a learning call was made on a table holding counts and a memoized list and was
\* rejected: the object is as it was
C10_Witness ==
    /\ lastCall.op = "rejected"
    /\ table.enableLearning
    /\ table.totalUpdates = 1
    /\ table.totalTransitions = 3
    /\ \E p \in DOMAIN table.predictions : table.predictions[p] # <<>>


----------------------------------------------------------------------------
(* The response cache of the server as initialize() leaves it: the server    *)
(* learns from the requests it serves which page follows which, and from     *)
(* then on pre-caches the successor of a page while it serves the page;      *)
(* request lookups, per-entry expiry timers and the periodic sweep           *)

InitCache ==
    /\ unit = "Cache"
    /\ table = NewPatternTable(<<1, 10>>, 5)
    /\ server = NewHttpServer(DefaultMaxCacheSize)
    /\ now = 0
    /\ lastCall = Call("init", <<>>)
    /\ insertOrder = <<>>
    /\ requests = <<>>
    /\ clients = EmptyMap
    /\ network = NoMessages

NextCache ==
    \/ ReceiveRequest
    \/ DeliverCacheCleanup
    \/ DeliverCacheExpiry
    \/ DeliverCachedResponse
    \/ DeliverDelayedProcessing
    \/ Finish

SpecCache == InitCache /\ [][NextCache]_vars

----------------------------------------------------------------------------
(* predictivePreCache as the response handlers call it, on the pattern map the *)
(* server has learned from the requests it served since initialize()          *)

\* pattern maps learned from requests that came from "home" for "login" and for
\* "dashboard": every pair of counts up to MaxCount, a count of 0 being no entry
LearnedMaps ==
    { [k \in {x \in {<<"home", "login">>, <<"home", "dashboard">>} :
                  (IF x[2] = "login" THEN a ELSE b) > 0}
          |-> IF k[2] = "login" THEN a ELSE b] :
      a \in 0 .. MaxCount, b \in 0 .. MaxCount }

InitPreCache ==
    /\ unit = "PreCache"
    /\ table = NewPatternTable(<<1, 10>>, 5)
    /\ server = NewHttpServer(DefaultMaxCacheSize)
    /\ now = 0
    /\ lastCall = Call("init", <<>>)
    /\ insertOrder = <<>>
    /\ requests = <<>>
    /\ clients = EmptyMap
    /\ network = NoMessages

NextPreCache ==
    \/ ReceiveRequest
    \/ DeliverCacheCleanup
    \/ DeliverCacheExpiry
    \/ DeliverCachedResponse
    \/ DeliverDelayedProcessing
    \/ Finish

SpecPreCache == InitPreCache /\ [][NextPreCache]_vars

----------------------------------------------------------------------------
(* The server as initialize() leaves it, driven by requests *)

InitServer ==
    /\ unit = "Server"
    /\ table = NewPatternTable(<<1, 10>>, 5)
    /\ server = NewHttpServer(DefaultMaxCacheSize)
    /\ now = 0
    /\ lastCall = Call("init", <<>>)
    /\ insertOrder = <<>>
    /\ requests = <<>>
    /\ clients = EmptyMap
    /\ network = NoMessages

NextServer ==
    \/ ReceiveRequest
    \/ DeliverCacheCleanup
    \/ DeliverCacheExpiry
    \/ DeliverCachedResponse
    \/ DeliverDelayedProcessing
    \/ Finish

SpecServer == InitServer /\ [][NextServer]_vars

\* the event loop of the simulation kernel: the earliest scheduled event is delivered
DeliverNextEvent ==
    \/ DeliverCacheCleanup
    \/ DeliverCacheExpiry
    \/ DeliverCachedResponse
    \/ DeliverDelayedProcessing

\* the kernel keeps delivering as long as an event is scheduled within the run
SpecServerFair == SpecServer /\ WF_vars(DeliverNextEvent)
\* ---- the server with its clients ----

\* the clients of a network, client i on gate i: one client, or one on each gate
NetClients == {0 .. n : n \in Gates}

\* values uniform(0.1, 0.5) draws for the first request of a client
FirstRequestDelays == {TicksPerSecond \div 10, (2 * TicksPerSecond) \div 5}

\* a value randomPageChoice draws, uniform in HOME .. LOGOUT
RandomPages == {0}

InitNetwork ==
    /\ unit = "Network"
    /\ table = NewPatternTable(<<1, 10>>, 5)
    /\ server = NewHttpServer(DefaultMaxCacheSize)
    /\ now = 0
    /\ lastCall = Call("init", <<>>)
    /\ insertOrder = <<>>
    /\ requests = <<>>
    /\ \E connected \in NetClients :
          \E firstDelay \in [connected -> FirstRequestDelays] :
             clients = [c \in connected |-> NewHttpClient(c, firstDelay[c])]
    /\ \E linkDelay \in [DOMAIN clients -> LinkDelays] :
          network = [NoMessages EXCEPT !.linkDelay = linkDelay]

\* handleMessage of a client, the nextRequestTimer branch: the client sends its
\* next request, which is on its way to the server
ClientSendsRequest ==
    /\ unit = "Network"
    /\ Running
    /\ \E c \in WaitingClients, t \in {NextEventTime} :
          /\ clients[c].nextRequestTimer = t
          /\ t <= EndOfRun
          /\ \E followPattern \in BOOLEAN, randomPage \in RandomPages,
                linkDelay \in {LinkDelay(network, c)} :
                \E r \in {handleNextRequestTimer(clients[c], followPattern, randomPage, t)} :
                   /\ clients' = [clients EXCEPT ![c] = r.client]
                   /\ network' = sendToServer(network, c, r.request, linkDelay, t)
                   /\ lastCall' = Call("sendHttpRequest",
                                       [requestId |-> r.request.requestId, clientId |-> c])
          /\ now' = t
    /\ UNCHANGED <<unit, table, server, insertOrder, requests>>

\* handleMessage of the server: an HttpRequest arrives from a client and
\* handleHttpRequest runs
DeliverHttpRequest ==
    /\ unit = "Network"
    /\ Running
    /\ \E m \in network.toServer, t \in {NextEventTime} :
          /\ m.arrival = t
          /\ t <= EndOfRun
          /\ \E cacheDelay \in CacheHitDelays, delay \in ProcessingDelays :
                \E handled \in {handleHttpRequest(server, m.msg, t, cacheDelay, delay)} :
                   /\ server' = handled
                   /\ requests' = Append(requests, Arrived(m.msg, t))
                   /\ insertOrder' = OrderAfter(insertOrder, handled.responseCache, {})
                   /\ lastCall' = Call("handleHttpRequest", Looked(m.msg, server, handled))
          /\ network' = [network EXCEPT !.toServer = @ \ {m}]
          /\ now' = t
    /\ UNCHANGED <<unit, table, clients>>

\* handleMessage of a client, the branch of a message that is not its timer: an
\* HttpResponse arrives and handleHttpResponse runs
DeliverHttpResponse ==
    /\ unit = "Network"
    /\ Running
    /\ \E m \in network.toClients, t \in {NextEventTime} :
          /\ m.arrival = t
          /\ t <= EndOfRun
          /\ \E thinkTime \in ThinkTimes :
                clients' = [clients EXCEPT
                               ![m.gate] = handleHttpResponse(@, m.msg, thinkTime, t)]
          /\ network' = [network EXCEPT !.toClients = @ \ {m}]
          /\ lastCall' = Call("handleHttpResponse",
                              [requestId |-> m.msg.requestId, clientId |-> m.gate])
          /\ now' = t
    /\ UNCHANGED <<unit, table, server, insertOrder, requests>>

NextNetwork ==
    \/ ClientSendsRequest
    \/ DeliverHttpRequest
    \/ DeliverHttpResponse
    \/ DeliverCacheCleanup
    \/ DeliverCacheExpiry
    \/ DeliverCachedResponse
    \/ DeliverDelayedProcessing
    \/ Finish

SpecNetwork == InitNetwork /\ [][NextNetwork]_vars

----------------------------------------------------------------------------
(* Properties of the response cache *)

\* the stored entries of the current state
Stored == DOMAIN server.responseCache

\* toPage is stored by this step: it was absent, or its entry is a new one
InsertStep(toPage) ==
    /\ toPage \in DOMAIN server'.responseCache
    /\ \/ toPage \notin Stored
       \/ server'.responseCache[toPage].timestamp # server.responseCache[toPage].timestamp

\* no stored entry has reached its expiry time at time t
NoneExpiredAt(t) == \A k \in Stored : ~isExpired(server.responseCache[k], t)

\* no stored entry has reached its expiry time
NoneExpired == NoneExpiredAt(now)

\* the last message delivered was a response self-message, whose handler served a
\* page and called predictivePreCache for it
ServedLast == lastCall.op \in {"CachedResponse", "processDelayedRequest"}

\* the server of the current state, had initialize() set maxCacheSize to n
WithCapacity(n) == [server EXCEPT !.maxCacheSize = n]

\* the entry predictivePreCache stores under k at the current instant
FreshEntry(k) == CacheEntry(-1, generatePageContent(k), PreCacheTtl, now)

\* the cache after addToCacheWithManagement has stored the absent key k in the
\* cache of the current state at capacity n
InsertedAt(n, k) ==
    addToCacheWithManagement(WithCapacity(n), k, FreshEntry(k), now).responseCache

\* C1: for every capacity >= 1, whatever cache events have happened (pre-cache
\* insertions, lookups, expiry timers, sweeps, LRU evictions), the response cache
\* never stores more entries than maxCacheSize: it does not in any state the server
\* reaches, and an insertion through addToCacheWithManagement into the cache of
\* such a state keeps the bound at every capacity from 1 to MaxCap that the cache
\* is within.
C1_CacheWithinCapacity ==
    /\ server.maxCacheSize >= 1 => Cardinality(Stored) <= server.maxCacheSize
    /\ \A n \in 1 .. MaxCap, k \in CacheKeys \ Stored :
          Cardinality(Stored) <= n => Cardinality(DOMAIN InsertedAt(n, k)) <= n

\* a response handler has just pre-cached a page next to another unexpired entry,
\* and an insertion of a third key at capacity 2 leaves two entries
C1_Witness ==
    /\ unit = "Cache"
    /\ ServedLast
    /\ lastCall.result.inserted # {}
    /\ lastCall.result.inserted \subseteq Stored
    /\ Cardinality(Stored) = 2
    /\ NoneExpired
    /\ \E k \in CacheKeys \ Stored : Cardinality(DOMAIN InsertedAt(2, k)) = 2

\* C2: an entry stored at t0 with ttl d > 0 and still in the cache answers a lookup
\* at any time before t0 + d with a hit carrying its content, and a lookup at any
\* time from t0 + d on with a miss after which its key is no longer stored.
C2_ExpiryCorrectness ==
    \A k \in Stored :
        LET entry == server.responseCache[k]
            r == checkResponseCache(server, k, now)
        IN entry.ttl > 0 =>
              IF now < entry.timestamp + Seconds(entry.ttl)
              THEN /\ now >= entry.timestamp
                   /\ r.hit
                   /\ r.cachedResponse = entry.content
                   /\ k \in DOMAIN r.server.responseCache
              ELSE /\ ~r.hit
                   /\ k \notin DOMAIN r.server.responseCache

\* the lookup of a request that arrived at the expiry time has just missed and
\* removed the entry
C2_Witness ==
    /\ unit = "Cache"
    /\ lastCall.op = "handleHttpRequest"
    /\ ~lastCall.result.hit
    /\ lastCall.result.expired = 1
    /\ lastCall.result.page \notin Stored
    /\ now >= Seconds(PreCacheTtl)

\* every stored entry was stored and never looked up since, and none is expired;
\* insertOrder lists them from the first inserted on
FreshInsertsOnly ==
    /\ Stored # {}
    /\ Len(insertOrder) = Cardinality(Stored)
    /\ NoneExpired
    /\ \A k \in Stored : server.responseCache[k].accessCount = 1

LruVictimAtCapacity ==
    (Stored # {} /\ NoneExpired) =>
        \A k \in CacheKeys \ Stored :
            \A r \in {InsertedAt(Cardinality(Stored), k)} :
                \E v \in Stored :
                    /\ DOMAIN r = (Stored \ {v}) \cup {k}
                    /\ \A j \in Stored :
                          server.responseCache[v].lastAccess <= server.responseCache[j].lastAccess
                    /\ \A j \in Stored \ {v} : r[j] = server.responseCache[j]

\* C4: lastAccess of an entry is the time it was stored or, after a lookup hit, the
\* time of the most recent hit; and an insert that finds the cache at capacity
\* with no entry expired evicts exactly one entry, whose lastAccess is minimal
\* among the stored entries, so that an entry hit after another one was stored
\* outlives that other one.
C4_LruVictim ==
    /\ [][\A k \in CacheKeys :
             /\ InsertStep(k) =>
                   /\ server'.responseCache[k].lastAccess = now'
                   /\ server'.responseCache[k].accessCount = 1
             /\ ( /\ k \in Stored
                  /\ k \in DOMAIN server'.responseCache
                  /\ server'.responseCache[k].accessCount = server.responseCache[k].accessCount + 1 )
                => server'.responseCache[k].lastAccess = now'
             /\ ( /\ InsertStep(k)
                  /\ k \notin Stored
                  /\ Stored # {}
                  /\ Cardinality(Stored) >= server.maxCacheSize
                  /\ NoneExpiredAt(now') )
                => \E v \in Stored :
                      /\ DOMAIN server'.responseCache = (Stored \ {v}) \cup {k}
                      /\ \A j \in Stored :
                            server.responseCache[v].lastAccess <= server.responseCache[j].lastAccess
                      /\ \A j \in Stored \ {v} :
                            server'.responseCache[j] = server.responseCache[j]
      ]_vars
    /\ []LruVictimAtCapacity

\* an entry that was stored, then hit at a later time after a second entry was
\* stored, has just been hit; an insertion of a third key at capacity 2 evicts the
\* second entry and leaves the one that was hit
C4_Witness ==
    /\ unit = "Cache"
    /\ lastCall.op = "handleHttpRequest"
    /\ lastCall.result.hit
    /\ NoneExpired
    /\ \E a \in Stored, b \in Stored :
          /\ Stored = {a, b}
          /\ a # b
          /\ server.responseCache[a].accessCount = 2
          /\ server.responseCache[b].accessCount = 1
          /\ server.responseCache[a].timestamp <= server.responseCache[b].timestamp
          /\ server.responseCache[b].lastAccess < server.responseCache[a].lastAccess
          /\ \E k \in CacheKeys \ Stored : DOMAIN InsertedAt(2, k) = {a, k}

----------------------------------------------------------------------------
(* The PatternTable constructed with a confidence threshold of 1 or more, or with a
   bound on the predictions of 0 or less *)

DegenerateThresholds == {<<1, 1>>, <<3, 2>>}

\* PatternTable(threshold, maxPred) stores both arguments unchecked
DegenerateSettings ==
    (DegenerateThresholds \X MaxPredChoices) \cup (Thresholds \X DegenerateMaxPredictions)

InitDegenerate ==
    /\ unit \in {"PatternTable", "Learner"}
    /\ \/ /\ unit = "PatternTable"
          /\ \E setting \in DegenerateSettings :
                table = NewPatternTable(setting[1], setting[2])
       \/ /\ unit = "Learner"
          /\ table = NewPatternTable(<<1, 10>>, 5)
    /\ server = NewHttpServer(DefaultMaxCacheSize)
    /\ now = 0
    /\ lastCall = Call("init", <<>>)
    /\ insertOrder = <<>>
    /\ requests = <<>>
    /\ clients = EmptyMap
    /\ network = NoMessages

SpecDegenerate == InitDegenerate /\ [][NextTable]_vars

\* C12: with confidenceThreshold >= 1 prediction is disabled: for every page p and
\* every learned table getPredictions(p) is empty and getMostLikelyNextPage(p) is the
\* no-prediction value -1.
C12_ThresholdOneDisablesPrediction ==
    (unit = "PatternTable" /\ RatGE(table.confidenceThreshold, <<1, 1>>)) =>
        \A p \in PageInputs :
            /\ getPredictions(table, p).result = <<>>
            /\ getMostLikelyNextPage(table, p) = -1


----------------------------------------------------------------------------
(* Further properties of the response cache *)

\* C16: a lookup that finds its key stored but expired is a miss that removes that
\* entry, cancels the entry's pending expiry timer, lowers the size counter by
\* exactly 1 and reports one expired event; every other entry, every other timer
\* and the rest of the server are left as they were.  Stated for the lookup on the
\* cache of every state in which a request can be looked up: the simulation runs.
C16_ExpiredLookupRemovesOne ==
    \A k \in Stored :
        (Running /\ isExpired(server.responseCache[k], now)) =>
            LET r == checkResponseCache(server, k, now)
            IN /\ ~r.hit
               /\ r.expired = 1
               /\ k \in DOMAIN server.cacheExpiryMessages
               /\ server.cacheExpiryMessages[k] \in server.fes
               /\ r.server = [server EXCEPT
                                 !.responseCache = MapErase(@, k),
                                 !.cacheExpiryMessages = MapErase(@, k),
                                 !.fes = @ \ {server.cacheExpiryMessages[k]},
                                 !.currentCacheSize = @ - 1]

\* a lookup has just removed an expired entry while another entry stays stored with
\* its own timer pending
C16_Witness ==
    /\ unit = "Cache"
    /\ lastCall.op = "handleHttpRequest"
    /\ lastCall.result.expired = 1
    /\ lastCall.result.page \notin Stored
    /\ lastCall.result.page \notin DOMAIN server.cacheExpiryMessages
    /\ \E j \in Stored : server.cacheExpiryMessages[j] \in server.fes

\* C18: at every event boundary currentCacheSize equals the number of entries stored
\* in responseCache, whatever pre-cache insertions, lookups, expiry timers, sweeps
\* and LRU evictions have been delivered.
C18_SizeCounterExact ==
    server.currentCacheSize = Cardinality(Stored)

\* an entry was stored and hit, the entries stored before the first sweep have
\* expired and gone, and a response handler has just stored a new one: the counter
\* has gone up, down and up again
C18_Witness ==
    /\ unit = "Cache"
    /\ now > Seconds(cacheCleanupInterval)
    /\ server.cacheCleanupTimer > Seconds(cacheCleanupInterval)
    /\ server.totalCacheHits >= 1
    /\ ServedLast
    /\ lastCall.result.inserted # {}
    /\ lastCall.result.inserted = Stored
    /\ server.currentCacheSize = 1

\* the stored keys whose lastAccess is the smallest
LeastRecent == {k \in Stored : \A j \in Stored :
                   server.responseCache[k].lastAccess <= server.responseCache[j].lastAccess}

----------------------------------------------------------------------------
(* Properties of predictivePreCache *)

\* the count of the transition (p, q) in the server's pattern map, 0 when absent
CountOf(p, q) ==
    IF <<p, q>> \in DOMAIN server.patternTable THEN server.patternTable[<<p, q>>] ELSE 0

\* count(p, q) / totalFrom(p) is strictly greater than 0.6
AboveThreshold(p, q) ==
    /\ CountOf(p, q) > 0
    /\ 10 * CountOf(p, q) > 6 * totalFromPageOf(server, p)

\* this step is a response handler that serves page p and calls
\* predictivePreCache(p)
PreCacheEvalStep(p) ==
    /\ unit = "PreCache"
    /\ lastCall'.op \in {"CachedResponse", "processDelayedRequest"}
    /\ lastCall'.result.page = p
    /\ server'.responsesGenerated = server.responsesGenerated + 1

\* C14: predictivePreCache(p) inserts a successor q only if count(p,q)/totalFrom(p)
\* is strictly greater than the prediction threshold 0.6, so an edge whose
\* probability equals the threshold (3 of 5) is not pre-cached; and every successor
\* strictly above the threshold that is absent from the cache or expired is
\* inserted, created at the current time with the speculative TTL of 5 seconds.
C14_PreCacheStrictlyAboveThreshold ==
    [][\A p \in CacheKeys : PreCacheEvalStep(p) =>
          \A q \in CacheKeys :
              /\ InsertStep(q) => AboveThreshold(p, q)'
              /\ ( /\ AboveThreshold(p, q)'
                   /\ \/ q \notin Stored
                      \/ isExpired(server.responseCache[q], now') )
                 => /\ q \in DOMAIN server'.responseCache
                    /\ server'.responseCache[q].ttl = PreCacheTtl
                    /\ server'.responseCache[q].timestamp = now'
                    /\ server'.responseCache[q].content = generatePageContent(q)
                    /\ server'.cacheExpiryMessages[q].arrival = now' + Seconds(PreCacheTtl)]_vars

\* "home" has been served and predictivePreCache("home") has run on 3 of 5
\* transitions to "login" and 2 of 5 to "dashboard", and neither page is stored
C14_Witness ==
    /\ unit = "PreCache"
    /\ ServedLast
    /\ lastCall.result.page = "home"
    /\ CountOf("home", "login") = 3
    /\ CountOf("home", "dashboard") = 2
    /\ Stored = {}

----------------------------------------------------------------------------
(* Properties of the request flow *)

\* the ids of the requests delivered so far
RequestIds == 1 .. Len(requests)

\* this step is the handler that answers request r with a page (hit or miss path)
ServeStep(r) ==
    /\ unit = "Server"
    /\ r \in RequestIds
    /\ lastCall'.op \in {"CachedResponse", "processDelayedRequest"}
    /\ lastCall'.result.requestId = r
    /\ server'.responsesGenerated = server.responsesGenerated + 1
    /\ requests[r].resourceId \in DOMAIN server.webPages

\* the transition of request r, as page names
TransitionOf(r) == <<getPageName(requests[r].fromPage), getPageName(requests[r].resourceId)>>

\* after this step every successor of page p whose probability, on the counts of the
\* new state, is strictly above 0.6 is stored and not expired
PreCachedFromUpdatedCounts(p) ==
    \A q \in {k[2] : k \in {x \in DOMAIN server'.patternTable : x[1] = p}} :
        10 * server'.patternTable[<<p, q>>] > 6 * totalFromPageOf(server', p)
        => /\ q \in DOMAIN server'.responseCache
           /\ ~isExpired(server'.responseCache[q], now')

\* C13 as stated: for every served page request, on the hit path and on the miss
\* path, the transition (fromPage -> served page) is recorded if and only if
\* fromPage >= 0, and the pre-cache evaluation of the served page runs after the
\* update in the same event.
C13_RecordedIffNotSentinel ==
    [][\A r \in 1 .. MaxRequests : ServeStep(r) =>
          /\ server'.patternTable =
                 IF requests[r].fromPage >= 0
                 THEN MapAdd(server.patternTable, TransitionOf(r), 1)
                 ELSE server.patternTable
          /\ PreCachedFromUpdatedCounts(TransitionOf(r)[2])]_vars

\* C13 amended: for every served page request, on the hit path and on the miss
\* path, the transition (fromPage -> served page) is recorded if and only if
\* fromPage >= 0 and fromPage is not the served page itself, and the pre-cache
\* evaluation of the served page runs after the update in the same event.
C13_RecordedIffNotSentinelNorSelf ==
    [][\A r \in 1 .. MaxRequests : ServeStep(r) =>
          /\ server'.patternTable =
                 IF requests[r].fromPage >= 0 /\ TransitionOf(r)[1] # TransitionOf(r)[2]
                 THEN MapAdd(server.patternTable, TransitionOf(r), 1)
                 ELSE server.patternTable
          /\ PreCachedFromUpdatedCounts(TransitionOf(r)[2])]_vars

\* a request from "home" for "login" has just been answered from the cache and its
\* transition counted a second time, and a request at the start of a session was
\* answered before it, leaving no transition from the sentinel
C13_Witness ==
    /\ unit = "Server"
    /\ lastCall.op = "CachedResponse"
    /\ requests[lastCall.result.requestId].fromPage = 0
    /\ requests[lastCall.result.requestId].resourceId = 1
    /\ server.patternTable[<<"home", "login">>] = 2
    /\ \E r \in RequestIds : requests[r].fromPage = -1 /\ r \notin DOMAIN server.requestStartTimes
    /\ DOMAIN server.patternTable = {<<"home", "login">>}

\* C15: after a request that missed the cache has been processed to completion, the
\* served page is in the cache with its normal TTL, so that a request for the same
\* page that follows immediately is a hit.
C15_MissPopulatesCache ==
    ( /\ unit = "Server"
      /\ lastCall.op = "processDelayedRequest"
      /\ requests[lastCall.result.requestId].resourceId \in DOMAIN server.webPages )
    => LET resourceId == requests[lastCall.result.requestId].resourceId
           page == getPageName(resourceId)
       IN /\ page \in DOMAIN server.responseCache
          /\ server.responseCache[page].ttl = server.webPages[resourceId].ttl
          /\ checkResponseCache(server, page, now).hit

\* the number of responses sent for request r
ResponsesFor(r) == Cardinality({i \in DOMAIN server.out : server.out[i].msg.requestId = r})

\* request r has a self-message scheduled
InFlight(r) == \E i \in DOMAIN server.scheduled : server.scheduled[i].requestId = r

\* request r has been answered: one response, on the gate the request arrived on
Answered(r) ==
    /\ r \in RequestIds
    /\ ResponsesFor(r) = 1
    /\ \A i \in DOMAIN server.out :
           server.out[i].msg.requestId = r => server.out[i].gate = requests[r].arrivalGate

\* every request received so far is accounted for: a request in flight has no
\* response, every other request has exactly one, sent on the gate it arrived on,
\* and the counters agree with the messages
RequestsAccounted ==
    unit = "Server" =>
       /\ server.requestsReceived = Len(requests)
       /\ server.responsesGenerated <= server.requestsReceived
       /\ server.responsesGenerated = Len(server.out)
       /\ server.scheduled = <<>> => server.responsesGenerated = server.requestsReceived
       /\ \A r \in RequestIds : IF InFlight(r) THEN ResponsesFor(r) = 0 ELSE Answered(r)

\* C17: every HTTP request received eventually reaches its terminal state with
\* exactly one response sent on the gate it arrived on, whether it was a cache hit,
\* a miss or a request for an unknown resource; until then it has no response;
\* responsesGenerated never exceeds requestsReceived and equals it once no request
\* is in flight.  An answered request stays answered, so "eventually" is stated for
\* all requests at once: again and again every request received so far is answered,
\* and when the simulation has ended every request received has been answered.
C17_EveryRequestAnswered ==
    /\ []RequestsAccounted
    /\ [][\A r \in 1 .. MaxRequests : Answered(r) => Answered(r)']_vars
    /\ []<>(\A r \in RequestIds : Answered(r))
    /\ [](~Running => \A r \in RequestIds : Answered(r))

\* C17, with the end of the simulation taken into account: every HTTP request
\* received is eventually answered with exactly one response on the gate it
\* arrived on, unless the simulation ends while the request is in flight; the
\* rest as above.
C17_EveryRequestAnsweredUnlessEnded ==
    /\ []RequestsAccounted
    /\ [][\A r \in 1 .. MaxRequests : Answered(r) => Answered(r)']_vars
    /\ []<>(Running => \A r \in RequestIds : Answered(r))
    /\ [](~Running => \A r \in RequestIds : InFlight(r) \/ Answered(r))

\* three requests have been answered and none is in flight: one for "login" on
\* gate 1 from the cache, with the pre-cached content, and one for "home" on gate 0
\* by normal processing
C17_Witness ==
    /\ unit = "Server"
    /\ server.scheduled = <<>>
    /\ server.requestsReceived = 3
    /\ server.responsesGenerated = 3
    /\ server.totalCacheHits = 1
    /\ \E i, j \in DOMAIN server.out :
          /\ server.out[i].gate = 0
          /\ server.out[i].msg.resourceId = 0
          /\ server.out[j].gate = 1
          /\ server.out[j].msg.resourceId = 1
          /\ server.out[j].msg.content = generatePageContent("login")

\* C19: for every page, the content returned on a cache hit equals the content the
\* server returns for the page on a miss, the content registered in webPages: every
\* response sent for a registered page, from the cache or not, carries it.
C19_HitContentEqualsMissContent ==
    unit = "Server" =>
       \A i \in DOMAIN server.out :
           LET response == server.out[i].msg
           IN response.resourceId \in DOMAIN server.webPages
              => response.content = server.webPages[response.resourceId].content

----------------------------------------------------------------------------
(* The timers of the response cache *)

\* the expiry messages in the future event set that belong to key k
TimersOf(s, k) == {m \in s.fes : m.page = k}

\* C22: at every event boundary the keys with a registered pending expiry timer
\* (cacheExpiryMessages) are exactly the keys stored in the cache, with at most one
\* timer per key, and every registered timer is still scheduled: it has neither
\* fired nor been cancelled, so a cancellation never acts on a dead timer.  The
\* event boundaries are the states of the running simulation; finish(), after the
\* last event, cancels the timers and clears the registry.
C22_TimerRegistryMatchesCache ==
    (unit = "Cache" /\ Running) =>
       /\ DOMAIN server.cacheExpiryMessages = Stored
       /\ \A k \in Stored :
             /\ server.cacheExpiryMessages[k].page = k
             /\ server.cacheExpiryMessages[k] \in server.fes
             /\ server.cacheExpiryMessages[k].arrival >= now
             /\ Cardinality(TimersOf(server, k)) = 1
       /\ \A m \in server.fes : m.page \in Stored

\* the timer of one key has just fired while another key, stored later, stays in
\* the cache with its own timer pending
C22_Witness ==
    /\ unit = "Cache"
    /\ lastCall.op = "handleCacheExpiry"
    /\ lastCall.result.removed # {}
    /\ Cardinality(Stored) = 1
    /\ Cardinality(server.fes) = 1
    /\ Len(insertOrder) = 1
    /\ \A k \in Stored : server.responseCache[k].timestamp > 0

\* this step is handleMessage delivering the CacheExpiry_ timer of key k
ExpiryFires(k) ==
    /\ lastCall'.op = "handleCacheExpiry"
    /\ lastCall'.result.page = k
    /\ \E m \in TimersOf(server, k) : m.arrival = now' /\ m \notin server'.fes

\* C23: a per-entry expiry timer never removes a fresh entry: whenever the timer
\* of key k fires and an entry is stored under k, that entry is expired at that
\* instant (now >= timestamp + ttl), whatever insertions, re-insertions after
\* expiry, evictions and sweeps came before
C23_TimerRemovesOnlyExpired ==
    [][\A k \in CacheKeys :
          (ExpiryFires(k) /\ k \in Stored) =>
              /\ now' >= server.responseCache[k].timestamp
                             + Seconds(server.responseCache[k].ttl)
              /\ isExpired(server.responseCache[k], now')
              /\ k \notin DOMAIN server'.responseCache]_vars

\* the timer of a key that was stored again after its first entry had expired has
\* just fired and removed the entry, while another key stays stored, unexpired
C23_Witness ==
    /\ unit = "Cache"
    /\ lastCall.op = "handleCacheExpiry"
    /\ lastCall.result.page \notin Stored
    /\ \E e \in lastCall.result.removed :
          /\ e.timestamp > Seconds(PreCacheTtl)
          /\ now = e.timestamp + Seconds(e.ttl)
    /\ server.currentCacheSize = 1
    /\ \E k \in Stored : ~isExpired(server.responseCache[k], now)

\* C24: a lookup hit on an unexpired entry increases that entry's accessCount by
\* exactly 1, sets its lastAccess to the current time and returns its content; the
\* entry's content, timestamp and ttl, its expiry timer, every other entry and the
\* cache size stay as they were
C24_HitTouchesOnlyAccessFields ==
    \A k \in Stored :
        ~isExpired(server.responseCache[k], now) =>
            LET r == checkResponseCache(server, k, now)
                before == server.responseCache[k]
                after == r.server.responseCache[k]
            IN /\ r.hit
               /\ r.cachedResponse = before.content
               /\ DOMAIN r.server.responseCache = Stored
               /\ after.accessCount = before.accessCount + 1
               /\ after.lastAccess = now
               /\ after.content = before.content
               /\ after.timestamp = before.timestamp
               /\ after.ttl = before.ttl
               /\ \A j \in Stored \ {k} :
                      r.server.responseCache[j] = server.responseCache[j]
               /\ r.server.cacheExpiryMessages = server.cacheExpiryMessages
               /\ r.server.fes = server.fes
               /\ r.server.currentCacheSize = server.currentCacheSize

\* a lookup has just hit an entry stored earlier, next to a second entry that was
\* never looked up
C24_Witness ==
    /\ unit = "Cache"
    /\ lastCall.op = "handleHttpRequest"
    /\ lastCall.result.hit
    /\ lastCall.result.page \in Stored
    /\ server.responseCache[lastCall.result.page].accessCount = 2
    /\ server.responseCache[lastCall.result.page].lastAccess = now
    /\ server.responseCache[lastCall.result.page].timestamp < now
    /\ \E j \in Stored \ {lastCall.result.page} :
          /\ server.responseCache[j].accessCount = 1
          /\ server.cacheExpiryMessages[j] \in server.fes

\* the stored keys whose entry is expired at the current instant
ExpiredNow == {k \in Stored : isExpired(server.responseCache[k], now)}

\* C25: a sweep removes every entry that is expired at the time of the sweep and
\* no unexpired entry, cancels the timers of exactly the removed entries and lowers
\* the size by the number removed; an insertion at capacity sweeps before it
\* evicts, so it evicts no unexpired entry while an expired one is stored
C25_SweepRemovesExactlyExpired ==
    LET r == cleanupExpiredCache(server, now)
    IN /\ DOMAIN r.responseCache = Stored \ ExpiredNow
       /\ \A k \in Stored \ ExpiredNow : r.responseCache[k] = server.responseCache[k]
       /\ DOMAIN r.cacheExpiryMessages = DOMAIN server.cacheExpiryMessages \ ExpiredNow
       /\ r.fes = {m \in server.fes : m.page \notin ExpiredNow}
       /\ r.currentCacheSize = server.currentCacheSize - Cardinality(ExpiredNow)
       /\ \A k \in CacheKeys \ Stored :
              (ExpiredNow # {} /\ server.currentCacheSize >= server.maxCacheSize) =>
                  LET a == addToCacheWithManagement(
                               server, k, CacheEntry(-1, generatePageContent(k), PreCacheTtl, now), now)
                  IN DOMAIN a.responseCache = (Stored \ ExpiredNow) \cup {k}
       /\ \A k \in CacheKeys \ Stored :
              ExpiredNow # {} =>
                  DOMAIN InsertedAt(Cardinality(Stored), k) = (Stored \ ExpiredNow) \cup {k}
       /\ lastCall.op = "cleanupExpiredCache" => ExpiredNow = {}

\* the sweep has just run and removed the one entry that expired at that instant;
\* the other entry, stored later, stays with its timer
C25_Witness ==
    /\ unit = "Cache"
    /\ lastCall.op = "cleanupExpiredCache"
    /\ Cardinality(lastCall.result.removed) = 1
    /\ server.currentCacheSize = 1
    /\ Cardinality(Stored) = 1
    /\ ExpiredNow = {}
    /\ \A k \in Stored : TimersOf(server, k) # {}

\* ---- the periodic sweep as a bound on staleness ----

\* the instant from which the entry stored under k counts as expired
ExpiryInstant(k) ==
    server.responseCache[k].timestamp + Seconds(server.responseCache[k].ttl)

\* the server of the current state without its expiry messages: none registered,
\* none scheduled
WithoutTimers == [server EXCEPT !.cacheExpiryMessages = EmptyMap, !.fes = {}]

\* C26: staleness is bounded by the periodic sweep: the CacheCleanup timer is armed
\* again after every firing, at most one cleanupInterval ahead, so every entry
\* with ttl > 0 is out of the cache no later than one cleanupInterval (10 s) after
\* its expiry instant, even if its own expiry message is lost or was never
\* scheduled: the sweep that is armed removes every entry expired by then, and
\* removes the same entries when no expiry message is registered or scheduled.
\* The sweep is armed as long as the simulation runs; the bound on the clock holds
\* in every state, the clock standing still once the simulation has ended
C26_SweepBoundsStaleness ==
    /\ \A k \in Stored :
           server.responseCache[k].ttl > 0 =>
              now <= ExpiryInstant(k) + Seconds(cacheCleanupInterval)
    /\ Running =>
          /\ server.cacheCleanupTimer >= now
          /\ server.cacheCleanupTimer <= now + Seconds(cacheCleanupInterval)
          /\ \A k \in Stored :
                 ( /\ server.responseCache[k].ttl > 0
                   /\ isExpired(server.responseCache[k], now) ) =>
                     server.cacheCleanupTimer
                         <= ExpiryInstant(k) + Seconds(cacheCleanupInterval)
          /\ \A s \in {server, WithoutTimers} :
                 DOMAIN cleanupExpiredCache(s, server.cacheCleanupTimer).responseCache
                    = {k \in Stored : \/ server.responseCache[k].ttl <= 0
                                      \/ ExpiryInstant(k) > server.cacheCleanupTimer}

\* the first sweep has just removed an entry that expired at the instant of the
\* sweep, before the entry's own expiry message was delivered
C26_Witness ==
    /\ unit = "Cache"
    /\ lastCall.op = "cleanupExpiredCache"
    /\ lastCall.result.removed # {}
    /\ now = Seconds(cacheCleanupInterval)
    /\ Stored = {}
    /\ server.fes = {}

\* ---- evictLeastRecentlyUsed applied to the states the cache reaches ----

\* C28: evictLeastRecentlyUsed on a non-empty cache removes exactly one entry
\* together with its expiry timer and lowers the size by exactly 1; on an empty
\* cache it changes nothing
C28_EvictRemovesExactlyOne ==
    LET r == evictLeastRecentlyUsed(server)
    IN IF Stored = {}
       THEN r = server
       ELSE \E k \in Stored :
               /\ DOMAIN r.responseCache = Stored \ {k}
               /\ \A j \in Stored \ {k} : r.responseCache[j] = server.responseCache[j]
               /\ DOMAIN r.cacheExpiryMessages = DOMAIN server.cacheExpiryMessages \ {k}
               /\ \A j \in DOMAIN r.cacheExpiryMessages :
                      r.cacheExpiryMessages[j] = server.cacheExpiryMessages[j]
               /\ r.fes = {m \in server.fes : m.page # k}
               /\ r.currentCacheSize = server.currentCacheSize - 1
               /\ r.maxCacheSize = server.maxCacheSize
               /\ r.cacheCleanupTimer = server.cacheCleanupTimer

\* two unexpired entries with their timers, one accessed before the other:
\* evictLeastRecentlyUsed removes the one accessed first and its timer, and leaves
\* the other with its timer
C28_Witness ==
    /\ unit = "Cache"
    /\ NoneExpired
    /\ \E a \in Stored, b \in Stored :
          /\ Stored = {a, b}
          /\ server.responseCache[a].lastAccess < server.responseCache[b].lastAccess
          /\ Cardinality(server.fes) = 2
          /\ DOMAIN evictLeastRecentlyUsed(server).responseCache = {b}
          /\ evictLeastRecentlyUsed(server).fes = TimersOf(server, b)
          /\ evictLeastRecentlyUsed(server).currentCacheSize = 1

\* ---- predictivePreCache on a successor that is already cached ----

\* C29: when predictivePreCache finds a successor above the threshold already
\* cached and unexpired, it leaves that entry as it is (content, timestamp, ttl,
\* lastAccess and accessCount), does not reschedule its expiry timer and does not
\* change the cache size.  Stated for predictivePreCache on the cache of every
\* state in which a response handler can call it: the simulation runs.
C29_CachedSuccessorUntouched ==
    \A p \in CacheKeys, q \in CacheKeys :
        ( /\ Running
          /\ AboveThreshold(p, q)
          /\ q \in Stored
          /\ ~isExpired(server.responseCache[q], now) )
        => LET r == predictivePreCache(server, p, now)
           IN /\ q \in DOMAIN r.responseCache
              /\ r.responseCache[q] = server.responseCache[q]
              /\ q \in DOMAIN r.cacheExpiryMessages
              /\ r.cacheExpiryMessages[q] = server.cacheExpiryMessages[q]
              /\ TimersOf(r, q) = TimersOf(server, q)
              /\ r.currentCacheSize = server.currentCacheSize

\* "home" has just been served and predictivePreCache("home") has run with "login"
\* above the threshold and stored since an earlier instant, still unexpired
C29_Witness ==
    /\ unit = "PreCache"
    /\ ServedLast
    /\ lastCall.result.page = "home"
    /\ lastCall.result.inserted = {}
    /\ AboveThreshold("home", "login")
    /\ "login" \in Stored
    /\ server.responseCache["login"].timestamp < now
    /\ ~isExpired(server.responseCache["login"], now)
    /\ TimersOf(server, "login") =
          {[page |-> "login",
            arrival |-> server.responseCache["login"].timestamp + Seconds(PreCacheTtl)]}

\* ---- the running total of the pattern table ----

\* C30: totalTransitions equals the sum of all stored transition counts after any
\* sequence of recordTransition, updatePattern, recordSequence, decay, compact and
\* clear; in particular it is never negative
C30_TotalEqualsSumOfCounts ==
    unit = "PatternTable" =>
       /\ table.totalTransitions = SumCounts(table.transitions, DOMAIN table.transitions)
       /\ table.totalTransitions >= 0

\* ---- the maintenance and query methods of the PatternTable ----

\* the transitions of the table whose count is below minCount
BelowMinCount(minCount) ==
    {k \in DOMAIN table.transitions : table.transitions[k] < minCount}

\* C31: compact(minCount) removes exactly the transitions whose count is below
\* minCount, leaves every other count unchanged, lowers the running total by the
\* sum of the removed counts and clears every memoized prediction list
C31_CompactRemovesBelowMinCount ==
    unit = "PatternTable" =>
       \A m \in MinCounts :
          LET r == compact(table, m)
          IN /\ DOMAIN r.transitions = DOMAIN table.transitions \ BelowMinCount(m)
             /\ \A k \in DOMAIN r.transitions :
                    r.transitions[k] = table.transitions[k] /\ r.transitions[k] >= m
             /\ r.totalTransitions =
                    table.totalTransitions - SumCounts(table.transitions, BelowMinCount(m))
             /\ DOMAIN r.predictions = {}

\* a table with one transition counted once, another counted three times and a
\* memoized prediction list: compact(2) and compact(3) remove the first only
C31_Witness ==
    /\ unit = "PatternTable"
    /\ DOMAIN table.predictions # {}
    /\ \E a \in DOMAIN table.transitions, b \in DOMAIN table.transitions :
          /\ table.transitions[a] = 1
          /\ table.transitions[b] = 3
          /\ DOMAIN compact(table, 2).transitions = {b}

\* C32: after setConfidenceThreshold or setMaxPredictions every later
\* getPredictions(p) reflects the new setting: it never returns a list memoized
\* under the old threshold or bound that differs from the list a fresh
\* computation under the current settings gives
C32_SettersInvalidateMemo ==
    unit = "Tuning" =>
       \A p \in ValidPages :
          getPredictions(table, p).result = computePredictions(table, p)

\* C33: recordSequence(pages) has the same effect on counts, totals and memoized
\* predictions as recordTransition on each consecutive pair (pages[i], pages[i+1])
\* in order, and is a no-op when the sequence has fewer than 2 elements
C33_SequenceIsPairwiseRecording ==
    [](unit = "PatternTable" =>
          \A ps \in PageSequences :
             \A r \in {recordSequence(table, ps)} :
                /\ Len(ps) < 2 => r = table
                /\ Len(ps) = 2 => r = recordTransition(table, ps[1], ps[2])
                /\ Len(ps) = 3 =>
                       r = recordTransition(recordTransition(table, ps[1], ps[2]),
                                            ps[2], ps[3]))

\* a table that holds a memoized list for page 0 and on which the sequence
\* 0, 1, 0 records two transitions and removes that list
C33_Witness ==
    /\ unit = "PatternTable"
    /\ 0 \in DOMAIN table.predictions
    /\ table.predictions[0] # <<>>
    /\ LET r == recordSequence(table, <<0, 1, 0>>)
       IN /\ r.totalTransitions = table.totalTransitions + 2
          /\ r.totalUpdates = table.totalUpdates + 2
          /\ <<1, 0>> \in DOMAIN r.transitions
          /\ 0 \notin DOMAIN r.predictions

\* C34: getMostLikelyNextPage(p) returns a successor of p of maximal probability
\* when that probability is >= confidenceThreshold, and -1 otherwise (also when p
\* is invalid or has no outgoing transition); when it returns a page and
\* maxPredictions >= 1, that page has the probability of the first element of a
\* freshly computed getPredictions(p)
C34_MostLikelyIsBestAboveThreshold ==
    unit = "PatternTable" =>
       \A p \in PageInputs :
          LET r == getMostLikelyNextPage(table, p)
              fresh == computePredictions(table, p)
          IN /\ Qualifying(table, p) = {} => r = -1
             /\ Qualifying(table, p) # {} =>
                    /\ r \in Qualifying(table, p)
                    /\ \A q \in Successors(table, p) :
                           RatGE(getTransitionProbability(table, p, r),
                                 getTransitionProbability(table, p, q))
             /\ (r # -1 /\ table.maxPredictions >= 1) =>
                    /\ fresh # <<>>
                    /\ RatEQ(getTransitionProbability(table, p, fresh[1]),
                             getTransitionProbability(table, p, r))

\* page 0 has two successors, one seen three times as often as the other, and
\* getMostLikelyNextPage(0) returns the frequent one; page 1 has none and gets -1
C34_Witness ==
    /\ unit = "PatternTable"
    /\ Cardinality(Successors(table, 0)) = 2
    /\ getMostLikelyNextPage(table, 0) \in Successors(table, 0)
    /\ table.transitions[<<0, getMostLikelyNextPage(table, 0)>>] = 3
    /\ getMostLikelyNextPage(table, 1) = -1

\* ---- the clients and the server together ----

\* the instants at which a response was sent to the client on gate c
ResponseTimesTo(c) ==
    {server.out[i].msg.timestamp : i \in {j \in DOMAIN server.out : server.out[j].gate = c}}

\* the requests of client c on their way to the server, those the server has not
\* answered yet, and the responses on their way to client c
RequestsInFlight(c) == {m \in network.toServer : m.gate = c}
InServer(c) == {i \in DOMAIN server.scheduled : server.scheduled[i].arrivalGate = c}
ResponsesInFlight(c) == {m \in network.toClients : m.gate = c}

\* C35: each HttpClient has at most one request outstanding: it sends a new
\* request only after the response to its previous request has arrived and the
\* think time has elapsed, and its nextRequestTimer is never scheduled while it is
\* already scheduled, however the clients and the server interleave.  The one
\* outstanding request is on its way to the server, in the server, or answered by
\* a response on its way back; as long as the simulation runs, a client with no
\* request outstanding has its timer scheduled
C35_OneOutstandingRequest ==
    unit = "Network" =>
       \A c \in DOMAIN clients :
          LET cl == clients[c]
              outstanding == DOMAIN cl.pendingRequests
          IN /\ ~cl.rescheduled
             /\ Cardinality(outstanding) <= 1
             /\ cl.requestsSent - cl.responsesReceived = Cardinality(outstanding)
             /\ Cardinality(RequestsInFlight(c)) + Cardinality(InServer(c))
                   + Cardinality(ResponsesInFlight(c)) = Cardinality(outstanding)
             /\ cl.nextRequestTimer # NoTimer => outstanding = {}
             /\ (Running /\ outstanding = {}) => cl.nextRequestTimer # NoTimer
             /\ (cl.nextRequestTimer # NoTimer /\ cl.responsesReceived > 0) =>
                    \E answered \in ResponseTimesTo(c), linkDelay \in {LinkDelay(network, c)},
                       thinkTime \in ThinkTimes :
                       /\ \A u \in ResponseTimesTo(c) : u <= answered
                       /\ cl.nextRequestTimer = answered + linkDelay + thinkTime

\* both clients have had a response and have their next request outstanding at
\* the same time, one still on its way to the server and one in the server
C35_Witness ==
    /\ unit = "Network"
    /\ \A c \in DOMAIN clients :
          /\ clients[c].responsesReceived >= 1
          /\ clients[c].requestsSent = clients[c].responsesReceived + 1
          /\ clients[c].nextRequestTimer = NoTimer
    /\ Len(server.scheduled) = 1
    /\ Cardinality(network.toServer) = 1

\* the request that the i-th response sent answers: the one with the response's
\* request id that arrived on the gate the response was sent on
RequestAnsweredBy(i) ==
    CHOOSE k \in DOMAIN requests :
        /\ requests[k].arrivalGate = server.out[i].gate
        /\ requests[k].requestId = server.out[i].msg.requestId

\* the response times emitted after the i-th response was sent
EmittedFor(i) ==
    {e \in DOMAIN server.responseTimes : server.responseTimes[e].response = i}

\* C36: with clients whose requests overlap in time, every request that is answered
\* yields exactly one response-time / requestComplete emission measured from that
\* request's own arrival time, and requestStartTimes holds exactly the requests
\* still in flight (it is empty once all responses are sent)
C36_TimingPerRequest ==
    unit = "Network" =>
       /\ \A i \in DOMAIN server.out :
              /\ Cardinality(EmittedFor(i)) = 1
              /\ \A e \in EmittedFor(i) :
                     server.responseTimes[e].responseTime =
                        server.out[i].msg.timestamp - requests[RequestAnsweredBy(i)].arrival
       /\ Cardinality(DOMAIN server.requestStartTimes) = Len(server.scheduled)
       /\ server.scheduled = <<>> => DOMAIN server.requestStartTimes = {}

\* ---- how much one predictivePreCache call stores ----

\* the server of the current state after it has learned the pattern map learned,
\* had initialize() set maxCacheSize to n
WithLearned(learned, n) == [server EXCEPT !.patternTable = learned, !.maxCacheSize = n]

\* the successors of page p whose probability in learned exceeds predictionThreshold
AboveThresholdIn(learned, p) ==
    {q \in CacheKeys :
        RatGT(calculateTransitionProbability(WithLearned(learned, server.maxCacheSize), p, q),
              predictionThresholdValue)}

\* the unexpired entries of the current cache that new has lost at simTime() = now
EvictedBy(new) ==
    {k \in Stored \ DOMAIN new : ~isExpired(server.responseCache[k], now)}

\* the capacities predictivePreCache is tried with on the cache of the current
\* state: the one initialize() sets, and those up to MaxCap the cache is within
CapacitiesTried ==
    {server.maxCacheSize} \cup {n \in 1 .. MaxCap : Cardinality(Stored) <= n}

\* C37: a single predictivePreCache call inserts at most one entry into the cache,
\* for every learned pattern table, because at most one successor of a page can
\* have probability strictly above the 0.6 threshold; hence one served request
\* evicts at most one entry.  Stated for the response handler that has just run,
\* and for predictivePreCache on the cache of every state in which a response
\* handler can call it (the simulation runs and no timer is due), with every
\* pattern map of LearnedMaps
C37_AtMostOneInsertionPerCall ==
    unit = "Cache" =>
       /\ ServedLast =>
              /\ Cardinality(lastCall.result.inserted) <= 1
              /\ Cardinality(lastCall.result.evicted) <= 1
       /\ (Running /\ ~ExpiryDue /\ ~CleanupDue) =>
              \A learned \in LearnedMaps, p \in CacheKeys, n \in CapacitiesTried :
                 \A r \in {predictivePreCache(WithLearned(learned, n), p, now).responseCache},
                    above \in {AboveThresholdIn(learned, p)} :
                    \A inserted \in {InsertedBy(server.responseCache, r)} :
                       /\ Cardinality(above) <= 1
                       /\ inserted \subseteq above
                       /\ Cardinality(inserted) <= 1
                       /\ Cardinality(EvictedBy(r)) <= 1

\* a response handler has just stored one key next to another unexpired entry;
\* on this cache, were it at capacity 2, predictivePreCache("home") stores
\* "dashboard" and evicts one entry once "dashboard" was learned on 2 of the 3
\* transitions from "home" and "login" on the other
C37_Witness ==
    /\ unit = "Cache"
    /\ ~ExpiryDue /\ ~CleanupDue
    /\ ServedLast
    /\ Cardinality(lastCall.result.inserted) = 1
    /\ Stored = {"home", "login"}
    /\ NoneExpired
    /\ \E learned \in LearnedMaps :
          LET r == predictivePreCache(WithLearned(learned, 2), "home", now)
          IN /\ DOMAIN learned = {<<"home", "login">>, <<"home", "dashboard">>}
             /\ learned[<<"home", "login">>] = 1
             /\ learned[<<"home", "dashboard">>] = 2
             /\ InsertedBy(server.responseCache, r.responseCache) = {"dashboard"}
             /\ Cardinality(EvictedBy(r.responseCache)) = 1

----------------------------------------------------------------------------
(* The policy-based HttpServer: a list cache under LRU, LFU or FIFO *)

\* resources are numbered 0 .. MaxResource
MaxResource == 2
Resources == 0 .. MaxResource

\* requests received in a run of the policy-based server
MaxProcessed == 3

\* the values of the NED parameter cachePolicy
CachePolicies == {"LRU", "LFU", "FIFO"}

\* the values of the NED parameter predictionAlgorithm
PredictionAlgorithms == {"frequency", "pattern"}

\* the values of the NED parameter cacheSize: a negative one, 0, and the sizes up
\* to MaxCap
LegacyCacheSizes == -1 .. MaxCap

\* the gates of the policy-based server that have a client connected, and the
\* module id (getId()) of the client on each
LegacyGates == {0, 1}
LegacyModuleId(gate) == gate + 2

\* a value exponential(processingTime) draws, in ticks
LegacyDelays == {2}

\* a std::string is a sequence of pieces of text: a string literal of the code is
\* one piece
Literal(text) == <<text>>

\* cPar::str() of a string parameter: its value as NED text, between double quotes
str(value) == <<"dquote", value, "dquote">>

\* CacheEntry(int id) constructed at simTime() = t
LegacyCacheEntry(id, t) == [resourceId |-> id, lastAccess |-> t, frequency |-> 1]

\* HttpServer::initialize with the parameters read by par()
NewLegacyServer(cacheSize, cachePolicy, enablePrediction, predictionAlgorithm) ==
    [ cacheSize |-> cacheSize,
      cachePolicy |-> str(cachePolicy),
      enablePrediction |-> enablePrediction,
      predictionAlgorithm |-> str(predictionAlgorithm),
      requestsReceived |-> 0,
      responsesGenerated |-> 0,
      cache |-> <<>>,
      accessFrequency |-> EmptyMap,
      clientAccessPattern |-> EmptyMap,
      scheduled |-> {},
      out |-> <<>> ]

\* std::find_if over the list: the position of the first entry of resourceId, 0 for
\* cache.end()
findEntry(cache, resourceId) ==
    LET found == {i \in 1 .. Len(cache) : cache[i].resourceId = resourceId}
    IN IF found = {} THEN 0 ELSE CHOOSE i \in found : \A j \in found : i <= j

\* checkCache at simTime() = t: the server after the call and the value returned
checkCache(s, resourceId, t) ==
    IF s.cacheSize = 0 THEN [server |-> s, hit |-> FALSE]
    ELSE LET it == findEntry(s.cache, resourceId)
         IN IF it # 0
            THEN [server |-> [s EXCEPT !.cache[it].lastAccess = t,
                                       !.cache[it].frequency = @ + 1],
                  hit |-> TRUE]
            ELSE [server |-> s, hit |-> FALSE]

\* std::min_element over the list by lastAccess: the first of the smallest
oldestEntry(cache) ==
    CHOOSE i \in 1 .. Len(cache) :
        /\ \A j \in 1 .. Len(cache) : cache[i].lastAccess <= cache[j].lastAccess
        /\ \A j \in 1 .. (i - 1) : cache[i].lastAccess < cache[j].lastAccess

\* std::min_element over the list by frequency: the first of the smallest
leastFrequentEntry(cache) ==
    CHOOSE i \in 1 .. Len(cache) :
        /\ \A j \in 1 .. Len(cache) : cache[i].frequency <= cache[j].frequency
        /\ \A j \in 1 .. (i - 1) : cache[i].frequency < cache[j].frequency

\* std::list::erase of the entry at position i
eraseAt(cache, i) == SubSeq(cache, 1, i - 1) \o SubSeq(cache, i + 1, Len(cache))

\* evictFromCache
evictFromCache(s) ==
    IF s.cache = <<>> THEN s
    ELSE IF s.cachePolicy = Literal("LRU")
         THEN [s EXCEPT !.cache = eraseAt(@, oldestEntry(@))]
    ELSE IF s.cachePolicy = Literal("LFU")
         THEN [s EXCEPT !.cache = eraseAt(@, leastFrequentEntry(@))]
    ELSE [s EXCEPT !.cache = Tail(@)]

\* cache.size() >= cacheSize: the int is converted to size_t, which turns a
\* negative cacheSize into a value above every size a list can have
sizeAtLeast(size, cacheSize) ==
    IF cacheSize < 0 THEN FALSE ELSE size >= cacheSize

updateCacheAlwaysAdd(s, resourceId, t) ==
    IF s.cacheSize = 0 THEN s
    ELSE LET room == IF sizeAtLeast(Len(s.cache), s.cacheSize)
                     THEN evictFromCache(s) ELSE s
         IN [room EXCEPT !.cache = Append(@, LegacyCacheEntry(resourceId, t))]

\* updateCache at simTime() = t
updateCache(s, resourceId, t) ==
    IF s.cacheSize = 0 THEN s
    ELSE LET cached == checkCache(s, resourceId, t)
         IN IF cached.hit THEN cached.server
            ELSE LET room == IF sizeAtLeast(Len(s.cache), s.cacheSize)
                             THEN evictFromCache(s) ELSE s
                 IN [room EXCEPT !.cache = Append(@, LegacyCacheEntry(resourceId, t))]

RECURSIVE preCacheResources(_, _, _)
\* preCacheResources at simTime() = t
preCacheResources(s, resources, t) ==
    IF resources = <<>> THEN s
    ELSE preCacheResources(updateCache(s, Head(resources), t), Tail(resources), t)

\* freqPairs after std::sort(rbegin, rend): the resource ids by descending
\* {frequency, resourceId}
sortedByFrequency(accessFrequency) ==
    LET ids == DOMAIN accessFrequency
        before(a, b) == \/ accessFrequency[a] > accessFrequency[b]
                        \/ accessFrequency[a] = accessFrequency[b] /\ a > b
    IN [i \in 1 .. Cardinality(ids) |->
           CHOOSE r \in ids : Cardinality({q \in ids : before(q, r)}) = i - 1]

\* the elements of seq at the positions in keep, in their order
pickedFrom(seq, keep) ==
    LET idx == AscSeq(keep) IN [i \in 1 .. Len(idx) |-> seq[idx[i]]]

\* predictNextResources: the vectors it can return, one for every outcome of its
\* draws uniform(0, 1) < predictionAccuracy
predictNextResources(s, clientId, currentResource) ==
    IF s.predictionAlgorithm = Literal("frequency")
    THEN LET freqPairs == sortedByFrequency(s.accessFrequency)
             top == IF Len(freqPairs) < 3 THEN Len(freqPairs) ELSE 3
         IN {pickedFrom(freqPairs, keep) : keep \in SUBSET (1 .. top)}
    ELSE IF s.predictionAlgorithm = Literal("pattern")
    THEN LET pattern == s.clientAccessPattern[clientId]
         IN IF Len(pattern) >= 2
            THEN {<<>>} \cup {<<pattern[i + 1]>> :
                                 i \in {j \in 1 .. (Len(pattern) - 1) :
                                           pattern[j] = currentResource}}
            ELSE {<<>>}
    ELSE {<<>>}

\* the request message: the parameters HttpClient::sendHttpRequest adds, and
\* arrivalGateIndex, which handleMessage adds from the gate the message arrived on
LegacyRequest(requestId, clientId, resourceId, arrivalGate, arrival) ==
    [requestId |-> requestId, clientId |-> clientId, resourceId |-> resourceId,
     arrivalGateIndex |-> arrivalGate, arrival |-> arrival]

\* sendResponse
sendResponse(s, request, resourceId) ==
    [s EXCEPT !.out = Append(@, [resourceId |-> resourceId,
                                 requestId |-> request.requestId,
                                 gate |-> request.arrivalGateIndex]),
              !.responsesGenerated = @ + 1]

\* processRequest up to the cache lookup, at simTime() = t
lookedUp(s, request, t) ==
    checkCache([s EXCEPT !.clientAccessPattern =
                             MapPut(@, request.clientId,
                                    (IF request.clientId \in DOMAIN @
                                     THEN @[request.clientId] ELSE <<>>)
                                    \o <<request.resourceId>>),
                         !.accessFrequency = MapAdd(@, request.resourceId, 1)],
               request.resourceId, t)

\* processRequest from the cache lookup on: looked is the result of checkCache,
\* predictions the vector predictNextResources returned
processRequestFrom(looked, request, predictions, t) ==
    LET updated == IF looked.hit THEN looked.server
                   ELSE updateCache(looked.server, request.resourceId, t)
        preCached == IF updated.enablePrediction
                     THEN preCacheResources(updated, predictions, t)
                     ELSE updated
    IN sendResponse(preCached, request, request.resourceId)

\* the server after the miss branch of processRequest, the state predictNextResources
\* reads
beforePrediction(looked, request, t) ==
    IF looked.hit THEN looked.server
    ELSE updateCache(looked.server, request.resourceId, t)

InitLegacy ==
    /\ unit = "Legacy"
    /\ table = NewPatternTable(<<1, 10>>, 5)
    /\ \E cacheSize \in LegacyCacheSizes, cachePolicy \in CachePolicies,
          enablePrediction \in BOOLEAN, predictionAlgorithm \in PredictionAlgorithms :
          server = NewLegacyServer(cacheSize, cachePolicy, enablePrediction,
                                   predictionAlgorithm)
    /\ now = 0
    /\ lastCall = Call("init", <<>>)
    /\ insertOrder = <<>>
    /\ requests = <<>>
    /\ clients = EmptyMap
    /\ network = NoMessages

\* the requests the client with module id clientId has sent so far: its requestsSent
SentBy(clientId) ==
    Cardinality({i \in DOMAIN requests : requests[i].clientId = clientId})

\* handleMessage, a new incoming request: the request a client built in
\* sendHttpRequest arrives on the client's gate, is counted, gets its
\* arrivalGateIndex and is scheduled as a self-message after the processing delay
LegacyReceive ==
    /\ unit = "Legacy"
    /\ server.requestsReceived < MaxProcessed
    /\ \E t \in {now + 1}, gateIndex \in LegacyGates, resourceId \in Resources,
          delay \in LegacyDelays :
          /\ \A m \in server.scheduled : t <= m.arrival
          /\ now' = t
          /\ \E msg \in {LegacyRequest(SentBy(LegacyModuleId(gateIndex)),
                                       LegacyModuleId(gateIndex), resourceId,
                                       gateIndex, t + delay)} :
                /\ server' = [server EXCEPT !.requestsReceived = @ + 1,
                                            !.scheduled = @ \cup {msg}]
                /\ requests' = Append(requests, msg)
          /\ lastCall' = Call("handleMessage", <<>>)
    /\ UNCHANGED <<unit, table, insertOrder, clients, network>>

\* handleMessage, a self-message: processRequest on the earliest scheduled request
LegacyProcess ==
    /\ unit = "Legacy"
    /\ \E request \in server.scheduled :
          /\ \A m \in server.scheduled : request.arrival <= m.arrival
          /\ \E looked \in {lookedUp([server EXCEPT !.scheduled = @ \ {request}],
                                     request, request.arrival)} :
                \E predictions \in
                      IF server.enablePrediction
                      THEN predictNextResources(
                               beforePrediction(looked, request, request.arrival),
                               request.clientId, request.resourceId)
                      ELSE {<<>>} :
                   /\ server' = processRequestFrom(looked, request, predictions,
                                                   request.arrival)
                   /\ lastCall' = Call("processRequest",
                                       [cacheHit |-> looked.hit,
                                        predictions |-> predictions,
                                        before |-> {e.resourceId :
                                                      e \in {server.cache[i] :
                                                         i \in 1 .. Len(server.cache)}}])
          /\ now' = request.arrival
    /\ UNCHANGED <<unit, table, insertOrder, requests, clients, network>>

NextLegacy ==
    \/ LegacyReceive
    \/ LegacyProcess

SpecLegacy == InitLegacy /\ [][NextLegacy]_vars

\* the resourceIds in the cache list
CachedIds == {server.cache[i].resourceId : i \in 1 .. Len(server.cache)}

\* the vectors of up to two resources that preCacheResources is applied to
PredictionVectors ==
    {<<>>} \cup {<<a>> : a \in Resources} \cup {<<a, b>> : a, b \in Resources}

\* the resourceIds of list are pairwise distinct
DistinctIds(list) ==
    \A i, j \in 1 .. Len(list) : list[i].resourceId = list[j].resourceId => i = j

\* C38 as stated: in the policy-based server, after any sequence of processRequest
\* and preCacheResources calls under any policy (LRU, LFU, FIFO), the cache list
\* holds at most cacheSize entries with pairwise distinct resourceIds; with
\* cacheSize == 0 it stays empty and every checkCache is a miss
C38_CacheBoundedAndDistinct ==
    unit = "Legacy" =>
       /\ Len(server.cache) <= server.cacheSize
       /\ DistinctIds(server.cache)
       /\ server.cacheSize = 0 =>
             /\ server.cache = <<>>
             /\ \A r \in Resources : ~checkCache(server, r, now).hit
             /\ lastCall.op = "processRequest" => ~lastCall.result.cacheHit

\* C38 amended: in the policy-based server, after any sequence of processRequest
\* and preCacheResources calls under any policy (LRU, LFU, FIFO), the cache list
\* holds at most cacheSize entries whenever cacheSize >= 0, and its resourceIds are
\* pairwise distinct for every cacheSize; with cacheSize == 0 it stays empty and
\* every checkCache is a miss
C38_CacheBoundedWhenSizeNonNegative ==
    unit = "Legacy" =>
       /\ server.cacheSize >= 0 => Len(server.cache) <= server.cacheSize
       /\ DistinctIds(server.cache)
       /\ \A resources \in PredictionVectors :
             LET r == preCacheResources(server, resources, now)
             IN /\ server.cacheSize >= 0 => Len(r.cache) <= server.cacheSize
                /\ DistinctIds(r.cache)
       /\ server.cacheSize = 0 =>
             /\ server.cache = <<>>
             /\ \A r \in Resources : ~checkCache(server, r, now).hit
             /\ lastCall.op = "processRequest" => ~lastCall.result.cacheHit

\* a processRequest on a full cache of two entries has missed, evicted the entry at
\* the front of the list and stored its resource; preCacheResources for the
\* evicted resource and one that stays cached evicts again and leaves two entries
C38_Witness ==
    /\ unit = "Legacy"
    /\ lastCall.op = "processRequest"
    /\ ~lastCall.result.cacheHit
    /\ server.cacheSize = 2
    /\ Cardinality(lastCall.result.before) = 2
    /\ Len(server.cache) = 2
    /\ \E gone \in lastCall.result.before \ CachedIds :
          LET r == preCacheResources(server, <<gone, server.cache[2].resourceId>>, now)
          IN /\ Len(r.cache) = 2
             /\ r.cache[2].resourceId = gone
====
